---- MODULE Spec2Model ----
(***************************************************************************)
(* The request/response/error layer of the Lyft client (package lyft, its  *)
(* auth subpackages) as a state machine: one endpoint call at a time goes  *)
(* through request construction, Client.do, the status switch with its     *)
(* decoders and error constructors, and the deferred release of the body.  *)
(*                                                                         *)
(* Conventions of the data model                                           *)
(*  - a body is a sequence of JSON tokens (the bytes, grouped by lexeme);  *)
(*    json.Unmarshal is a syntax check over the whole sequence followed by *)
(*    a typed decode of the members the target struct names;               *)
(*  - a float64 is held in tenths (5.0 is 50), an integer type as itself;  *)
(*  - a time.Duration is [sec, nsec]; time.Second * d is [sec |-> d, 0];   *)
(*  - an http.Header is a function from the keys of the model to the list  *)
(*    of values of the key, the empty list standing for an absent key;     *)
(*  - a bytes.Buffer is [buf, off]: its contents and its read offset.      *)
(***************************************************************************)
EXTENDS Integers, Sequences, FiniteSets, TLC

(***************************************************************************)
(* JSON tokens                                                             *)
(***************************************************************************)
Tok(t, s, n) == [t |-> t, s |-> s, n |-> n]
LB    == Tok("{", "", 0)
RB    == Tok("}", "", 0)
LK    == Tok("[", "", 0)
RK    == Tok("]", "", 0)
COLON == Tok(":", "", 0)
COMMA == Tok(",", "", 0)
NULL  == Tok("null", "", 0)
TRUE_ == Tok("bool", "true", 1)
FALSE_ == Tok("bool", "false", 0)
\* A byte run that is no JSON lexeme (an HTML error page, say).
JUNK  == Tok("junk", "<html>", 0)
\* A string literal.
Str(s) == Tok("str", s, 0)
\* An integer literal n, and a literal with a fraction part: Dec(5, 0) is 5.0.
Num(n) == Tok("num", "", n * 10)
Dec(n, d) == Tok("num", ".", IF n < 0 THEN n * 10 - d ELSE n * 10 + d)
\* "key": value
KV(k, v) == <<Str(k), COLON>> \o v
\* {m1, m2, ...} from a sequence of members, [e1, e2, ...] from elements.
RECURSIVE Join(_)
Join(parts) ==
    IF Len(parts) = 0 THEN <<>>
    ELSE IF Len(parts) = 1 THEN parts[1]
    ELSE parts[1] \o <<COMMA>> \o Join(Tail(parts))
Obj(members) == <<LB>> \o Join(members) \o <<RB>>
Arr(elems) == <<LK>> \o Join(elems) \o <<RK>>

(***************************************************************************)
(* The JSON scanner: ValueEnd(b, i) is the index after the value that      *)
(* starts at b[i], or 0 when the bytes from i on are no JSON value.        *)
(***************************************************************************)
TokAt(b, i) == IF i >= 1 /\ i <= Len(b) THEN b[i] ELSE Tok("eof", "", 0)

RECURSIVE ValueEnd(_, _), MembersEnd(_, _), ElemsEnd(_, _)
\* After a member's value, which ended before b[e]: "," and the next member,
\* or "}".
AfterMember(b, e) ==
    IF e = 0 THEN 0
    ELSE IF TokAt(b, e).t = "," THEN MembersEnd(b, e + 1)
    ELSE IF TokAt(b, e).t = "}" THEN e + 1
    ELSE 0
\* After an element, which ended before b[e]: "," and the next one, or "]".
AfterElem(b, e) ==
    IF e = 0 THEN 0
    ELSE IF TokAt(b, e).t = "," THEN ElemsEnd(b, e + 1)
    ELSE IF TokAt(b, e).t = "]" THEN e + 1
    ELSE 0
\* The value at b[i] opens with a token of kind t.
ValueEndOf(b, i, t) ==
    IF t \in {"str", "num", "null", "bool"} THEN i + 1
    ELSE IF t = "{" THEN
        IF TokAt(b, i + 1).t = "}" THEN i + 2 ELSE MembersEnd(b, i + 1)
    ELSE IF t = "[" THEN
        IF TokAt(b, i + 1).t = "]" THEN i + 2 ELSE ElemsEnd(b, i + 1)
    ELSE 0
ValueEnd(b, i) == ValueEndOf(b, i, TokAt(b, i).t)
MembersEnd(b, j) ==
    IF TokAt(b, j).t # "str" \/ TokAt(b, j + 1).t # ":" THEN 0
    ELSE AfterMember(b, ValueEnd(b, j + 2))
ElemsEnd(b, j) == AfterElem(b, ValueEnd(b, j))

\* json.Valid: exactly one value and nothing after it.
Valid(b) == Len(b) > 0 /\ ValueEnd(b, 1) = Len(b) + 1

\* The members of the object at b[i] as [k, at]: key and index of the value.
RECURSIVE MembersFrom(_, _)
MoreMembers(b, e) == IF TokAt(b, e).t = "," THEN MembersFrom(b, e + 1) ELSE <<>>
MembersFrom(b, j) ==
    IF TokAt(b, j).t # "str" THEN <<>>
    ELSE <<[k |-> b[j].s, at |-> j + 2]>> \o MoreMembers(b, ValueEnd(b, j + 2))
Members(b, i) == MembersFrom(b, i + 1)

\* The indices of the elements of the array at b[i].
RECURSIVE ElemsFrom(_, _)
MoreElems(b, e) == IF TokAt(b, e).t = "," THEN ElemsFrom(b, e + 1) ELSE <<>>
ElemsFrom(b, j) ==
    IF TokAt(b, j).t = "]" THEN <<>>
    ELSE <<j>> \o MoreElems(b, ValueEnd(b, j))
Elems(b, i) == ElemsFrom(b, i + 1)

(***************************************************************************)
(* Strings the code inspects character by character (strconv.ParseInt,     *)
(* time.Parse, strings.Fields) are spelled out here; every other string is *)
(* only copied and compared, and stays atomic.                             *)
(***************************************************************************)
Chars(s) ==
    CASE s = "" -> <<>>
      [] s = "60" -> <<"6", "0">>
      [] s = "300" -> <<"3", "0", "0">>
      [] s = "-5" -> <<"-", "5">>
      [] s = "+7" -> <<"+", "7">>
      [] s = "soon" -> <<"s", "o", "o", "n">>
      [] s = "6 0" -> <<"6", " ", "0">>
      [] s = "public" -> <<"p", "u", "b", "l", "i", "c">>
      [] s = "public  offline" ->
            <<"p", "u", "b", "l", "i", "c", " ", " ", "o", "f", "f", "l", "i", "n", "e">>
      [] s = "2017-11-05T10:00:00Z" ->
            <<"2", "0", "1", "7", "-", "1", "1", "-", "0", "5", "T",
              "1", "0", ":", "0", "0", ":", "0", "0", "Z">>
      [] s = "2017-11-05T10:00:00+05:30" ->
            <<"2", "0", "1", "7", "-", "1", "1", "-", "0", "5", "T",
              "1", "0", ":", "0", "0", ":", "0", "0", "+", "0", "5", ":", "3", "0">>
      [] s = "2017-11-05 10:00:00" ->
            <<"2", "0", "1", "7", "-", "1", "1", "-", "0", "5", " ",
              "1", "0", ":", "0", "0", ":", "0", "0">>
      [] s = "2017-13-05T10:00:00Z" ->
            <<"2", "0", "1", "7", "-", "1", "3", "-", "0", "5", "T",
              "1", "0", ":", "0", "0", ":", "0", "0", "Z">>
      [] s = "yesterday" -> <<"y", "e", "s", "t", "e", "r", "d", "a", "y">>
      [] s = "sandboxevent" ->
            <<"s", "a", "n", "d", "b", "o", "x", "e", "v", "e", "n", "t">>
      [] s = "sandboxevent-1" ->
            <<"s", "a", "n", "d", "b", "o", "x", "e", "v", "e", "n", "t", "-", "1">>
      [] s = "event-2" -> <<"e", "v", "e", "n", "t", "-", "2">>
      [] s = "ride.status.updated" ->
            <<"r", "i", "d", "e", ".", "s", "t", "a", "t", "u", "s", ".",
              "u", "p", "d", "a", "t", "e", "d">>

\* strings.HasPrefix(s, prefix)
HasPrefixChars(cs, ps) == Len(cs) >= Len(ps) /\ SubSeq(cs, 1, Len(ps)) = ps
HasPrefix(s, prefix) == HasPrefixChars(Chars(s), Chars(prefix))

Digit(c) ==
    CASE c = "0" -> 0 [] c = "1" -> 1 [] c = "2" -> 2 [] c = "3" -> 3
      [] c = "4" -> 4 [] c = "5" -> 5 [] c = "6" -> 6 [] c = "7" -> 7
      [] c = "8" -> 8 [] c = "9" -> 9 [] OTHER -> -1
IsDigit(c) == Digit(c) >= 0

\* The value of a run of digits, most significant first.
RECURSIVE DigitsValue(_)
DigitsValue(cs) ==
    IF Len(cs) = 0 THEN 0
    ELSE DigitsValue(SubSeq(cs, 1, Len(cs) - 1)) * 10 + Digit(cs[Len(cs)])
AllDigits(cs) == Len(cs) > 0 /\ \A i \in 1..Len(cs) : IsDigit(cs[i])

\* strconv.ParseInt(s, 10, 64): an optional sign, then one or more digits.
Unsigned(cs) == IF Len(cs) > 0 /\ cs[1] \in {"+", "-"} THEN Tail(cs) ELSE cs
ParseIntChars(cs) ==
    IF AllDigits(Unsigned(cs))
    THEN [err |-> FALSE,
          v |-> IF cs[1] = "-" THEN 0 - DigitsValue(Unsigned(cs))
                ELSE DigitsValue(Unsigned(cs))]
    ELSE [err |-> TRUE, v |-> 0]
ParseInt(s) == ParseIntChars(Chars(s))

\* strings.Fields: the maximal runs of non-space characters, in order.
RECURSIVE FieldsOf(_, _)
FieldsOf(cs, cur) ==
    IF Len(cs) = 0 THEN (IF Len(cur) = 0 THEN <<>> ELSE <<cur>>)
    ELSE IF cs[1] = " "
         THEN (IF Len(cur) = 0 THEN <<>> ELSE <<cur>>) \o FieldsOf(Tail(cs), <<>>)
         ELSE FieldsOf(Tail(cs), Append(cur, cs[1]))
Fields(s) == FieldsOf(Chars(s), <<>>)

(***************************************************************************)
(* time.Duration and time.Time                                             *)
(***************************************************************************)
\* time.Duration(n): the multiplication by time.Second left out.
Nanoseconds(n) == [sec |-> 0, nsec |-> n]
\* time.Second * time.Duration(n)
Seconds(n) == [sec |-> n, nsec |-> 0]
ZeroDuration == [sec |-> 0, nsec |-> 0]
\* time.Duration(f) of a float64 held in tenths: truncation toward zero.
TruncFloat(f) == IF f >= 0 THEN f \div 10 ELSE 0 - ((0 - f) \div 10)

ZeroTime == [Y |-> 1, M |-> 1, D |-> 1, h |-> 0, m |-> 0, s |-> 0, off |-> 0]

DaysIn(y, m) ==
    IF m \in {4, 6, 9, 11} THEN 30
    ELSE IF m = 2
         THEN (IF y % 4 = 0 /\ (y % 100 # 0 \/ y % 400 = 0) THEN 29 ELSE 28)
         ELSE 31

\* time.Parse(TimeLayout, s) with TimeLayout = time.RFC3339,
\* "2006-01-02T15:04:05Z07:00": the fixed-width date and clock fields, then
\* "Z" or a signed hh:mm offset; every field must be in range.
NumAt(cs, i, j) == DigitsValue(SubSeq(cs, i, j))
DigitsAt(cs, i, j) == \A k \in i..j : IsDigit(cs[k])
TimeShape(cs) ==
    /\ Len(cs) >= 20
    /\ DigitsAt(cs, 1, 4) /\ cs[5] = "-" /\ DigitsAt(cs, 6, 7) /\ cs[8] = "-"
    /\ DigitsAt(cs, 9, 10) /\ cs[11] = "T"
    /\ DigitsAt(cs, 12, 13) /\ cs[14] = ":" /\ DigitsAt(cs, 15, 16) /\ cs[17] = ":"
    /\ DigitsAt(cs, 18, 19)
TimeZone(cs) ==
    IF Len(cs) = 20 /\ cs[20] = "Z" THEN [ok |-> TRUE, off |-> 0]
    ELSE IF /\ Len(cs) = 25 /\ cs[20] \in {"+", "-"} /\ DigitsAt(cs, 21, 22)
            /\ cs[23] = ":" /\ DigitsAt(cs, 24, 25)
            /\ NumAt(cs, 21, 22) < 24 /\ NumAt(cs, 24, 25) < 60
         THEN [ok |-> TRUE,
               off |-> (IF cs[20] = "-" THEN -1 ELSE 1)
                         * (NumAt(cs, 21, 22) * 60 + NumAt(cs, 24, 25))]
         ELSE [ok |-> FALSE, off |-> 0]
TimeInRange(cs) ==
    /\ NumAt(cs, 6, 7) \in 1..12
    /\ NumAt(cs, 9, 10) \in 1..DaysIn(NumAt(cs, 1, 4), NumAt(cs, 6, 7))
    /\ NumAt(cs, 12, 13) < 24 /\ NumAt(cs, 15, 16) < 60 /\ NumAt(cs, 18, 19) < 60
ParseTimeChars(cs) ==
    IF TimeShape(cs) /\ TimeZone(cs).ok /\ TimeInRange(cs)
    THEN [err |-> FALSE,
          v |-> [Y |-> NumAt(cs, 1, 4), M |-> NumAt(cs, 6, 7), D |-> NumAt(cs, 9, 10),
                 h |-> NumAt(cs, 12, 13), m |-> NumAt(cs, 15, 16),
                 s |-> NumAt(cs, 18, 19), off |-> TimeZone(cs).off]]
    ELSE [err |-> TRUE, v |-> ZeroTime]
ParseTime(s) == ParseTimeChars(Chars(s))


(***************************************************************************)
(* The struct types the decoders fill: for each, its fields as             *)
(* <<Go field name, JSON key, type>>.                                      *)
(***************************************************************************)
StructFields(ty) ==
    CASE ty = "lyftError" ->
            {<<"Slug", "error", "string">>,
             <<"Details", "error_detail", "[]map[string]string">>,
             <<"Description", "error_description", "string">>}
      [] ty = "costTokenInfo" ->
            {<<"PrimetimePercentage", "primetime_percentage", "string">>,
             <<"PrimetimeMultiplier", "primetime_multiplier", "float64">>,
             <<"PrimetimeToken", "primetime_confirmation_token", "string">>,
             <<"CostToken", "cost_token", "string">>,
             <<"TokenDuration", "token_duration", "string">>,
             <<"ErrorURI", "error_uri", "string">>}
      [] ty = "cancelAux" ->
            {<<"Amount", "amount", "float64">>,
             <<"Currency", "currency", "string">>,
             <<"Token", "token", "string">>,
             <<"TokenDuration", "token_duration", "int64">>}
      [] ty = "CreatedRide" ->
            {<<"RideID", "ride_id", "string">>,
             <<"RideStatus", "status", "string">>,
             <<"RideType", "ride_type", "string">>,
             <<"Origin", "origin", "Location">>,
             <<"Destination", "destination", "Location">>,
             <<"Passenger", "passenger", "Person">>}
      [] ty = "Location" ->
            {<<"Latitude", "lat", "float64">>,
             <<"Longitude", "lng", "float64">>,
             <<"Address", "address", "string">>}
      [] ty = "Person" ->
            {<<"UserID", "user_id", "string">>,
             <<"FirstName", "first_name", "string">>,
             <<"LastName", "last_name", "string">>,
             <<"ImageURL", "image_url", "string">>,
             <<"Rating", "rating", "string">>,
             <<"Phone", "phone_number", "string">>}
      [] ty = "rideDetail" ->
            {<<"RideID", "ride_id", "string">>,
             <<"RideStatus", "status", "string">>,
             <<"RideType", "ride_type", "string">>,
             <<"Origin", "origin", "rideLocation">>,
             <<"Pickup", "pickup", "rideLocation">>,
             <<"Destination", "destination", "rideLocation">>,
             <<"Dropoff", "dropoff", "rideLocation">>,
             <<"Location", "location", "VehicleLocation">>,
             <<"Passenger", "passenger", "Person">>,
             <<"Driver", "driver", "Person">>,
             <<"Vehicle", "vehicle", "Vehicle">>,
             <<"PrimetimePercentage", "primetime_percentage", "string">>,
             <<"Distance", "distance_miles", "float64">>,
             <<"Duration", "duration_seconds", "float64">>,
             <<"Price", "price", "Price">>,
             <<"LineItems", "line_items", "[]LineItem">>,
             <<"Requested", "requested_at", "string">>,
             <<"RideProfile", "ride_profile", "string">>,
             <<"BeaconColor", "beacon_string", "string">>,
             <<"PricingDetailsURL", "pricing_details_url", "string">>,
             <<"RouteURL", "route_url", "string">>,
             <<"CanCancel", "can_cancel", "[]string">>,
             <<"CanceledBy", "canceled_by", "string">>,
             <<"CancellationPrice", "cancellation_price", "cancellationPrice">>,
             <<"Rating", "rating", "int">>,
             <<"Feedback", "feedback", "string">>}
      [] ty = "rideLocation" ->
            {<<"Latitude", "lat", "float64">>,
             <<"Longitude", "lng", "float64">>,
             <<"Address", "address", "string">>,
             <<"ETA", "eta_seconds", "float64">>,
             <<"Time", "time", "string">>}
      [] ty = "VehicleLocation" ->
            {<<"Latitude", "lat", "float64">>,
             <<"Longitude", "lng", "float64">>,
             <<"Bearing", "bearing", "float64">>}
      [] ty = "Vehicle" ->
            {<<"Make", "make", "string">>,
             <<"Model", "model", "string">>,
             <<"Year", "year", "int">>,
             <<"LicensePlate", "license_plate", "string">>,
             <<"LicensePlateState", "license_plate_state", "string">>,
             <<"Color", "color", "string">>,
             <<"ImageURL", "image_url", "string">>}
      [] ty = "Price" ->
            {<<"Amount", "amount", "int">>,
             <<"Currency", "currency", "string">>,
             <<"Description", "description", "string">>}
      [] ty = "LineItem" ->
            {<<"Amount", "amount", "int">>,
             <<"Currency", "currency", "string">>,
             <<"Description", "type", "string">>}
      [] ty = "cancellationPrice" ->
            {<<"Amount", "amount", "int">>,
             <<"Currency", "currency", "string">>,
             <<"Token", "token", "string">>,
             <<"TokenDuration", "token_duration", "int64">>}
      [] ty = "rideReceipt" ->
            {<<"RideID", "ride_id", "string">>,
             <<"Price", "price", "Price">>,
             <<"LineItems", "line_items", "[]LineItem">>,
             <<"Charges", "charges", "[]Charge">>,
             <<"Requested", "requested_at", "string">>,
             <<"RideProfile", "ride_profile", "string">>}
      [] ty = "Charge" ->
            {<<"Amount", "amount", "int">>,
             <<"Currency", "currency", "string">>,
             <<"PaymentMethod", "payment_method", "string">>}
      [] ty = "rideHistoryResponse" -> {<<"R", "ride_history", "[]RideDetail">>}
      [] ty = "UserProfile" ->
            {<<"ID", "id", "string">>,
             <<"FirstName", "first_name", "string">>,
             <<"LastName", "last_name", "string">>,
             <<"Ridden", "has_taken_a_ride", "bool">>}
      [] ty = "RideType" ->
            {<<"DisplayName", "display_name", "string">>,
             <<"RideType", "ride_type", "string">>,
             <<"ImageURL", "image_url", "string">>,
             <<"Pricing", "pricing_details", "Pricing">>,
             <<"Seats", "seats", "int">>}
      [] ty = "Pricing" ->
            {<<"Base", "base_charge", "int">>,
             <<"PerMile", "cost_per_mile", "int">>,
             <<"PerMinute", "cost_per_minute", "int">>,
             <<"Minimum", "cost_minimum", "int">>,
             <<"TrustAndService", "trust_and_service", "int">>,
             <<"Currency", "currency", "string">>,
             <<"CancelPenalty", "cancel_penalty_amount", "int">>}
      [] ty = "rideTypesResponse" -> {<<"RideTypes", "ride_types", "[]RideType">>}
      [] ty = "costEstimate" ->
            {<<"RideType", "ride_type", "string">>,
             <<"DisplayName", "display_name", "string">>,
             <<"MaximumCost", "estimated_cost_cents_max", "int">>,
             <<"MinimumCost", "estimated_cost_cents_min", "int">>,
             <<"Distance", "estimated_distance_miles", "float64">>,
             <<"Duration", "estimated_duration_seconds", "int64">>,
             <<"PrimetimeToken", "primetime_confirmation_token", "string">>,
             <<"CostToken", "cost_token", "string">>,
             <<"Valid", "is_valid_estimate", "bool">>}
      [] ty = "costEstimatesResponse" -> {<<"C", "cost_estimates", "[]CostEstimate">>}
      [] ty = "etaEstimate" ->
            {<<"RideType", "ride_type", "string">>,
             <<"DisplayName", "display_name", "string">>,
             <<"ETA", "eta_seconds", "int64">>,
             <<"Valid", "is_valid_estimate", "bool">>}
      [] ty = "etaEstimatesResponse" -> {<<"E", "eta_estimates", "[]ETAEstimate">>}
      [] ty = "NearbyDriver" ->
            {<<"Drivers", "drivers", "[]Driver">>,
             <<"RideType", "ride_type", "string">>}
      [] ty = "Driver" -> {<<"Locations", "locations", "[]LatLng">>}
      [] ty = "LatLng" ->
            {<<"Latitude", "lat", "float64">>,
             <<"Longitude", "lng", "float64">>}
      [] ty = "nearbyDriversResponse" -> {<<"N", "nearby_drivers", "[]NearbyDriver">>}
      [] ty = "twolegToken" ->
            {<<"AccessToken", "access_token", "string">>,
             <<"TokenType", "token_type", "string">>,
             <<"Expires", "expires_in", "int64">>,
             <<"Scopes", "scope", "string">>}
      [] ty = "threelegToken" ->
            {<<"AccessToken", "access_token", "string">>,
             <<"RefreshToken", "refresh_token", "string">>,
             <<"TokenType", "token_type", "string">>,
             <<"Expires", "expires_in", "int64">>,
             <<"Scopes", "scope", "string">>}
      [] ty = "refreshedToken" ->
            {<<"AccessToken", "access_token", "string">>,
             <<"TokenType", "token_type", "string">>,
             <<"Expires", "expires_in", "int64">>,
             <<"Scopes", "scope", "string">>}
      [] ty = "Internal" ->
            {<<"ClientID", "ClientID", "string">>,
             <<"ClientSecret", "ClientSecret", "string">>,
             <<"AccessToken", "AccessToken", "string">>,
             <<"RefreshToken", "RefreshToken", "string">>}
      [] ty = "event" ->
            {<<"EventID", "event_id", "string">>,
             <<"URL", "href", "string">>,
             <<"Occurred", "occurred_at", "string">>,
             <<"EventType", "event_type", "string">>,
             <<"Detail", "event", "RideDetail">>}

StructTypes ==
    {"lyftError", "costTokenInfo", "cancelAux", "CreatedRide", "Location", "Person",
     "rideDetail", "rideLocation", "VehicleLocation", "Vehicle", "Price", "LineItem",
     "cancellationPrice", "rideReceipt", "Charge", "rideHistoryResponse", "UserProfile",
     "RideType", "Pricing", "rideTypesResponse", "costEstimate", "costEstimatesResponse",
     "etaEstimate", "etaEstimatesResponse", "NearbyDriver", "Driver", "LatLng",
     "nearbyDriversResponse", "twolegToken", "threelegToken", "refreshedToken", "event",
     "Internal"}

\* The element type of a slice type.
ElemType(ty) ==
    CASE ty = "[]map[string]string" -> "map[string]string"
      [] ty = "[]string" -> "string"
      [] ty = "[]LineItem" -> "LineItem"
      [] ty = "[]Charge" -> "Charge"
      [] ty = "[]RideDetail" -> "RideDetail"
      [] ty = "[]RideType" -> "RideType"
      [] ty = "[]CostEstimate" -> "CostEstimate"
      [] ty = "[]ETAEstimate" -> "ETAEstimate"
      [] ty = "[]NearbyDriver" -> "NearbyDriver"
      [] ty = "[]Driver" -> "Driver"
      [] ty = "[]LatLng" -> "LatLng"
SliceTypes ==
    {"[]map[string]string", "[]string", "[]LineItem", "[]Charge", "[]RideDetail",
     "[]RideType", "[]CostEstimate", "[]ETAEstimate", "[]NearbyDriver", "[]Driver",
     "[]LatLng"}

\* The types with an UnmarshalJSON method, and the auxiliary struct each decodes.
AuxType(ty) ==
    CASE ty = "CostTokenInfo" -> "costTokenInfo"
      [] ty = "RideDetail" -> "rideDetail"
      [] ty = "RideReceipt" -> "rideReceipt"
      [] ty = "CostEstimate" -> "costEstimate"
      [] ty = "ETAEstimate" -> "etaEstimate"
      [] ty = "Event" -> "event"
UnmarshalerTypes ==
    {"CostTokenInfo", "RideDetail", "RideReceipt", "CostEstimate", "ETAEstimate", "Event"}

FieldNames(ty) == {f[1] : f \in StructFields(ty)}
FieldOf(ty, name) == CHOOSE f \in StructFields(ty) : f[1] = name

Override(rec, changes) ==
    [n \in DOMAIN rec |-> IF n \in DOMAIN changes THEN changes[n] ELSE rec[n]]

\* `var d RideDetail`, given the zero values of the auxiliary structs: the
\* struct a successful conversion fills.
ZeroRideLocationOf(l) == Override(l, [ETA |-> ZeroDuration, Time |-> ZeroTime])
ZeroRideDetailOf(d, l, c) ==
    Override(d,
        [Origin |-> ZeroRideLocationOf(l), Pickup |-> ZeroRideLocationOf(l),
         Destination |-> ZeroRideLocationOf(l), Dropoff |-> ZeroRideLocationOf(l),
         Duration |-> ZeroDuration, Requested |-> ZeroTime,
         CancellationPrice |-> Override(c, [TokenDuration |-> ZeroDuration])])

\* A value as the declaration `var x T` leaves it.
RECURSIVE Zero(_)
Zero(ty) ==
    IF ty = "RideDetail"
    THEN ZeroRideDetailOf(Zero("rideDetail"), Zero("rideLocation"), Zero("cancellationPrice"))
    ELSE IF ty = "string" THEN ""
    ELSE IF ty \in {"int", "int64", "float64"} THEN 0
    ELSE IF ty = "bool" THEN FALSE
    ELSE IF ty = "map[string]string" THEN {}
    ELSE IF ty \in SliceTypes THEN <<>>
    ELSE [n \in FieldNames(ty) |-> Zero(FieldOf(ty, n)[3])]
ZeroRideDetail == Zero("RideDetail")

(***************************************************************************)
(* The UnmarshalJSON methods.  Each takes the result [err, v] of decoding  *)
(* its auxiliary struct and yields [err, v] of the exported type.          *)
(* When err is TRUE, v is not what a caller may use: every caller returns  *)
(* a zero value in its place (newRideRequestError leaves Cost nil).        *)
(***************************************************************************)
\* The exported struct before any field is assigned.
ZeroCostTokenInfo == Override(Zero("costTokenInfo"), [TokenDuration |-> ZeroDuration])

\* The method after json.Unmarshal into aux succeeded; i is the result of
\* strconv.ParseInt(aux.TokenDuration, 10, 64).
CostTokenInfoAssign(aux, i) ==
    IF i.err
    THEN [err |-> TRUE,
          v |-> Override(ZeroCostTokenInfo,
                   [PrimetimePercentage |-> aux.PrimetimePercentage,
                    PrimetimeMultiplier |-> aux.PrimetimeMultiplier,
                    PrimetimeToken |-> aux.PrimetimeToken,
                    CostToken |-> aux.CostToken])]
    ELSE [err |-> FALSE, v |-> Override(aux, [TokenDuration |-> Seconds(i.v)])]

CostTokenInfoUnmarshalJSON(aux) ==
    IF aux.err THEN [err |-> TRUE, v |-> ZeroCostTokenInfo]
    ELSE CostTokenInfoAssign(aux.v, ParseInt(aux.v.TokenDuration))

\* The location with its ETA converted and its Time still to be parsed.
rideLocationBase(l) == Override(l, [ETA |-> Seconds(TruncFloat(l.ETA)), Time |-> ZeroTime])
\* The location after time.Parse returned t.
rideLocationParsed(l, t) ==
    IF t.err THEN [err |-> TRUE, v |-> rideLocationBase(l)]
    ELSE [err |-> FALSE, v |-> Override(rideLocationBase(l), [Time |-> t.v])]

\* rideLocation.convert without the test for the empty string.
rideLocationConvertAlwaysParse(l) == rideLocationParsed(l, ParseTime(l.Time))

\* rideLocation.convert
rideLocationConvert(l) ==
    IF l.Time # "" THEN rideLocationParsed(l, ParseTime(l.Time))
    ELSE [err |-> FALSE, v |-> rideLocationBase(l)]

\* cancellationPrice.convert
cancellationPriceConvert(c) ==
    [err |-> FALSE, v |-> Override(c, [TokenDuration |-> Seconds(c.TokenDuration)])]

\* rideDetail.convert once the nested conversions are made.
rideDetailAssign(r, origin, pickup, destination, dropoff, requested, price) ==
    [err |-> \/ origin.err \/ pickup.err \/ destination.err \/ dropoff.err
             \/ (r.Requested # "" /\ requested.err)
             \/ price.err,
     v |-> Override(r,
             [Origin |-> origin.v, Pickup |-> pickup.v,
              Destination |-> destination.v, Dropoff |-> dropoff.v,
              Duration |-> Seconds(TruncFloat(r.Duration)),
              Requested |-> IF r.Requested # "" /\ ~requested.err
                            THEN requested.v ELSE ZeroTime,
              CancellationPrice |-> price.v])]

\* rideDetail.convert, called by RideDetail.UnmarshalJSON
rideDetailConvert(r) ==
    rideDetailAssign(r, rideLocationConvert(r.Origin), rideLocationConvert(r.Pickup),
                     rideLocationConvert(r.Destination), rideLocationConvert(r.Dropoff),
                     ParseTime(r.Requested), cancellationPriceConvert(r.CancellationPrice))

\* The method's result: the conversion's value, with an error if the decode
\* into aux or the conversion failed.
WithError(err, r) == [err |-> err \/ r.err, v |-> r.v]
RideDetailUnmarshalJSON(aux) == WithError(aux.err, rideDetailConvert(aux.v))

\* RideReceipt.UnmarshalJSON with the error of time.Parse dropped.
rideReceiptAssignLenient(aux, requested) ==
    [err |-> aux.err,
     v |-> Override(aux.v,
             [Requested |-> IF aux.v.Requested # "" /\ ~requested.err
                            THEN requested.v ELSE ZeroTime])]
rideReceiptAssign(aux, requested) ==
    [err |-> aux.err \/ (aux.v.Requested # "" /\ requested.err),
     v |-> Override(aux.v,
             [Requested |-> IF aux.v.Requested # "" /\ ~requested.err
                            THEN requested.v ELSE ZeroTime])]
RideReceiptUnmarshalJSON(aux) == rideReceiptAssign(aux, ParseTime(aux.v.Requested))

\* CostEstimate.UnmarshalJSON with the factor time.Second left out.
CostEstimateUnmarshalJSONNoFactor(aux) ==
    [err |-> aux.err, v |-> Override(aux.v, [Duration |-> Nanoseconds(aux.v.Duration)])]

CostEstimateUnmarshalJSON(aux) ==
    [err |-> aux.err, v |-> Override(aux.v, [Duration |-> Seconds(aux.v.Duration)])]

ETAEstimateUnmarshalJSON(aux) ==
    [err |-> aux.err, v |-> Override(aux.v, [ETA |-> Seconds(aux.v.ETA)])]

\* The Event before any field is assigned.
ZeroEvent ==
    [EventID |-> "", URL |-> "", Occurred |-> ZeroTime, EventType |-> "",
     Detail |-> ZeroRideDetail]

\* Event.UnmarshalJSON after json.Unmarshal into aux succeeded; o is the
\* result of time.Parse(lyft.TimeLayout, aux.Occurred).  EventID is assigned
\* twice, the second time from aux.EventType; EventType is not assigned.
eventAssign(aux, o) ==
    IF aux.Occurred # "" /\ o.err
    THEN [err |-> TRUE,
          v |-> Override(ZeroEvent, [EventID |-> aux.EventID, URL |-> aux.URL])]
    ELSE [err |-> FALSE,
          v |-> [EventID |-> aux.EventType,
                 URL |-> aux.URL,
                 Occurred |-> IF aux.Occurred # "" THEN o.v ELSE ZeroTime,
                 EventType |-> "",
                 Detail |-> aux.Detail]]

EventUnmarshalJSON(aux) ==
    IF aux.err THEN [err |-> TRUE, v |-> ZeroEvent]
    ELSE eventAssign(aux.v, ParseTime(aux.v.Occurred))

\* Event.IsSandbox
IsSandbox(e) == HasPrefix(e.EventID, "sandboxevent")

UnmarshalJSON(ty, aux) ==
    CASE ty = "Event" -> EventUnmarshalJSON(aux)
      [] ty = "CostTokenInfo" -> CostTokenInfoUnmarshalJSON(aux)
      [] ty = "RideDetail" -> RideDetailUnmarshalJSON(aux)
      [] ty = "RideReceipt" -> RideReceiptUnmarshalJSON(aux)
      [] ty = "CostEstimate" -> CostEstimateUnmarshalJSON(aux)
      [] ty = "ETAEstimate" -> ETAEstimateUnmarshalJSON(aux)

(***************************************************************************)
(* encoding/json's decode of the value at b[i] into a target of type ty:   *)
(* [err, set, v].  err: a value did not fit its target (or an UnmarshalJSON*)
(* failed); set: the target was assigned; v: the target afterwards,        *)
(* starting from its zero value.  b is syntactically valid.  Keys are      *)
(* matched exactly (the bodies of the model use the documented spelling).  *)
(***************************************************************************)
MaxOf(S) == CHOOSE x \in S : \A y \in S : y <= x

\* The type json decodes the bytes into: for a type with an UnmarshalJSON
\* method, the method's auxiliary struct.
Target(ty) == IF ty \in UnmarshalerTypes THEN AuxType(ty) ELSE ty

\* The token tok opens a value that fits a target of type ty and has parts.
IsComposite(tok, ty) ==
    \/ tok.t = "{" /\ (ty = "map[string]string" \/ ty \in StructTypes)
    \/ tok.t = "[" /\ ty \in SliceTypes

\* A value without parts, or one that does not fit its target.
Scalar(tok, ty) ==
    IF ty = "" THEN [err |-> FALSE, set |-> FALSE, v |-> 0]
    ELSE IF tok.t = "null" THEN
        [err |-> FALSE, set |-> ty \in SliceTypes \cup {"map[string]string"}, v |-> Zero(ty)]
    ELSE IF \/ ty = "string" /\ tok.t = "str"
            \/ ty \in {"int", "int64"} /\ tok.t = "num" /\ tok.s = ""
            \/ ty = "float64" /\ tok.t = "num"
            \/ ty = "bool" /\ tok.t = "bool"
    THEN [err |-> FALSE, set |-> TRUE,
          v |-> CASE ty = "string" -> tok.s
                  [] ty \in {"int", "int64"} -> tok.n \div 10
                  [] ty = "float64" -> tok.n
                  [] ty = "bool" -> (tok.n = 1)]
    ELSE [err |-> TRUE, set |-> FALSE, v |-> Zero(ty)]

\* The type of the struct field with json key k; "" when there is none and
\* the member is skipped.
KeyType(ty, k) ==
    IF \E f \in StructFields(ty) : f[2] = k
    THEN (CHOOSE f \in StructFields(ty) : f[2] = k)[3]
    ELSE ""

\* The parts of the composite value at b[i]: where each starts, the type it
\* is decoded into, and its key.
ElemParts(es, ty) == [j \in 1..Len(es) |-> [at |-> es[j], ty |-> ty, k |-> ""]]
MemberParts(ms, ty) ==
    [j \in 1..Len(ms) |->
        [at |-> ms[j].at,
         ty |-> IF ty = "map[string]string" THEN "string" ELSE KeyType(ty, ms[j].k),
         k |-> ms[j].k]]
Parts(b, i, ty) ==
    IF ty \in SliceTypes THEN ElemParts(Elems(b, i), ElemType(ty))
    ELSE MemberParts(Members(b, i), ty)

\* The parts with key k that assigned their target; the last one wins.
Assigned(parts, rs, k) == {j \in 1..Len(parts) : parts[j].k = k /\ rs[j].set}

\* The field with json key k after its parts were decoded.
FieldValue(ty, assigned, rs) ==
    IF assigned = {} THEN Zero(ty) ELSE rs[MaxOf(assigned)].v

\* The target of type ty after its parts were decoded with results rs.
Assemble(ty, parts, rs) ==
    [err |-> \E j \in 1..Len(parts) : rs[j].err,
     set |-> TRUE,
     v |-> IF ty \in SliceTypes THEN [j \in 1..Len(parts) |-> rs[j].v]
           ELSE IF ty = "map[string]string"
           THEN {<<parts[j].k, rs[j].v>> :
                    j \in {k \in 1..Len(parts) :
                             \A l \in (k + 1)..Len(parts) : parts[l].k # parts[k].k}}
           ELSE [name \in FieldNames(ty) |->
                    FieldValue(FieldOf(ty, name)[3],
                               Assigned(parts, rs, FieldOf(ty, name)[2]), rs)]]

Settled(r) == [err |-> r.err, set |-> TRUE, v |-> r.v]
\* The UnmarshalJSON method of ty, if it has one, applied to the decoded
\* auxiliary value r.
Finish(ty, r) ==
    IF ty \in UnmarshalerTypes
    THEN Settled(UnmarshalJSON(ty, r))
    ELSE r

RECURSIVE Decode(_, _, _)
DecodeParts(b, ty, parts) ==
    Assemble(ty, parts, [j \in 1..Len(parts) |-> Decode(b, parts[j].at, parts[j].ty)])

Decode(b, i, ty) ==
    Finish(ty, IF IsComposite(b[i], Target(ty))
               THEN DecodeParts(b, Target(ty), Parts(b, i, Target(ty)))
               ELSE Scalar(b[i], Target(ty)))

\* `var v T` for any type of the model, the exported ones included.
ZeroValue(ty) ==
    IF ty \in UnmarshalerTypes
    THEN UnmarshalJSON(ty, [err |-> TRUE, v |-> Zero(AuxType(ty))]).v
    ELSE Zero(ty)

Outcome(r) == [err |-> r.err, v |-> r.v]
\* json.Unmarshal(b, &v) for v of type ty: [err, v].
JSONUnmarshal(b, ty) ==
    IF ~Valid(b) THEN [err |-> TRUE, v |-> ZeroValue(ty)]
    ELSE Outcome(Decode(b, 1, ty))

(***************************************************************************)
(* Streams (io.ReadCloser), buffers (bytes.Buffer) and headers             *)
(***************************************************************************)
NewStream(data) == [data |-> data, pos |-> 0, eof |-> FALSE, closed |-> 0]
NoStream == NewStream(<<>>)
\* The bytes a reader of the stream has not consumed yet.
Rest(st) == SubSeq(st.data, st.pos + 1, Len(st.data))
\* ioutil.ReadAll, bytes.Buffer.ReadFrom, io.Copy: read until io.EOF.
ReadToEOF(st) == [st EXCEPT !.pos = Len(st.data), !.eof = TRUE]
CloseStream(st) == [st EXCEPT !.closed = @ + 1]

drainAndClose(st) == CloseStream(ReadToEOF(st))

NewBuffer(bytes) == [buf |-> bytes, off |-> 0]
\* bytes.Buffer.Bytes: the unread portion.
BufferBytes(b) == SubSeq(b.buf, b.off + 1, Len(b.buf))
\* The buffer after a reader took everything from it.
BufferDrained(b) == [b EXCEPT !.off = Len(b.buf)]

HeaderKeys == {"error", "Error", "Authorization", "Content-Type", "X-Trace"}
EmptyHeader == [k \in HeaderKeys |-> <<>>]
\* http.Header.Add and http.Header.Set
HeaderAdd(h, k, v) == [h EXCEPT ![k] = Append(@, v)]
HeaderSet(h, k, v) == [h EXCEPT ![k] = <<v>>]
NilHeader == [nil |-> TRUE, h |-> EmptyHeader]
SomeHeader(h) == [nil |-> FALSE, h |-> h]

\* unmarshal: ioutil.ReadAll of the reader, then json.Unmarshal.  `bytes` is
\* what the reader had left.
unmarshal(bytes, ty) == JSONUnmarshal(bytes, ty)

(***************************************************************************)
(* The error model                                                         *)
(***************************************************************************)
TokenExpired == "token_expired"

\* newErrorInfo after the decode of the body: lyftErr is its result [err, v]
\* and v is h["error"].
errorInfoOf(lyftErr, v) ==
    [Reason |-> IF Len(v) # 0 THEN v[1]
                ELSE IF ~lyftErr.err THEN lyftErr.v.Slug ELSE "",
     Details |-> IF ~lyftErr.err THEN lyftErr.v.Details ELSE <<>>,
     Description |-> IF ~lyftErr.err THEN lyftErr.v.Description ELSE ""]
newErrorInfo(body, h) == errorInfoOf(unmarshal(BufferBytes(body), "lyftError"), h["error"])

NoError == [type |-> "nil"]
\* An error that is none of the package's types: encoding/json, strconv, time.
DecodeError == [type |-> "decode"]
\* The executor's error (net/http) and http.NewRequest's.
TransportError == [type |-> "transport"]
RequestError == [type |-> "request"]

\* The StatusError made of the buffer kept and the buffer newErrorInfo reads.
statusErrorOf(StatusCode, Header, kept, read) ==
    [type |-> "StatusError",
     StatusCode |-> StatusCode,
     ResponseBody |-> kept,
     ErrorInfo |-> newErrorInfo(read, Header)]

\* newStatusError with the decode error of the body returned in place of the
\* StatusError.
newStatusErrorSurfacing(StatusCode, Header, body) ==
    IF ~Valid(Rest(body)) THEN DecodeError
    ELSE statusErrorOf(StatusCode, Header, NewBuffer(Rest(body)), NewBuffer(Rest(body)))

\* newStatusError with newErrorInfo reading the buffer that is kept as
\* ResponseBody, instead of a second buffer over the same bytes.
newStatusErrorOneBuffer(StatusCode, Header, body) ==
    statusErrorOf(StatusCode, Header, BufferDrained(NewBuffer(Rest(body))),
                  NewBuffer(Rest(body)))

\* newStatusError(rsp): `body` is rsp.Body as the function finds it.  buf
\* holds the whole body; newErrorInfo reads a second buffer over buf.Bytes().
newStatusError(StatusCode, Header, body) ==
    statusErrorOf(StatusCode, Header, NewBuffer(Rest(body)),
                  NewBuffer(BufferBytes(NewBuffer(Rest(body)))))

NewStatusError(StatusCode, Header, body) == newStatusError(StatusCode, Header, body)

IsRateLimit(err) ==
    IF err.type = "StatusError" THEN err.StatusCode = 429 ELSE FALSE

IsTokenExpired(err) ==
    IF err.type = "StatusError"
    THEN \/ (err.StatusCode = 401 /\ Len(BufferBytes(err.ResponseBody)) = 0)
         \/ err.ErrorInfo.Reason = TokenExpired
    ELSE FALSE

NilPtr == [nil |-> TRUE, v |-> ZeroCostTokenInfo]
PtrTo(v) == [nil |-> FALSE, v |-> v]

newCostTokenInfo(body) == unmarshal(BufferBytes(body), "CostTokenInfo")

\* The RideRequestError made of the error info and of the result ci of
\* newCostTokenInfo.
rideRequestErrorOf(ei, ci) ==
    [type |-> "RideRequestError",
     ErrorInfo |-> ei,
     Cost |-> IF ~ci.err THEN PtrTo(ci.v) ELSE NilPtr]

\* newRideRequestError with the second buffer made after newErrorInfo has
\* read the first one.
newRideRequestErrorOneBuffer(Header, body) ==
    rideRequestErrorOf(newErrorInfo(NewBuffer(Rest(body)), Header),
                       newCostTokenInfo(NewBuffer(BufferBytes(
                           BufferDrained(NewBuffer(Rest(body)))))))

\* eiBuf holds the whole body and ciBuf is a second buffer over
\* eiBuf.Bytes(), made before eiBuf is read.
newRideRequestError(Header, body) ==
    rideRequestErrorOf(newErrorInfo(NewBuffer(Rest(body)), Header),
                       newCostTokenInfo(NewBuffer(BufferBytes(NewBuffer(Rest(body))))))

\* The CancelRideError made of the error info and of the result a of
\* decoding the aux struct.
cancelRideErrorOf(ei, a) ==
    [type |-> "CancelRideError",
     ErrorInfo |-> ei,
     Amount |-> IF ~a.err THEN a.v.Amount ELSE 0,
     Currency |-> IF ~a.err THEN a.v.Currency ELSE "",
     Token |-> IF ~a.err THEN a.v.Token ELSE "",
     TokenDuration |-> IF ~a.err THEN Seconds(a.v.TokenDuration) ELSE ZeroDuration]

newCancelRideError(Header, body) ==
    cancelRideErrorOf(newErrorInfo(NewBuffer(Rest(body)), Header),
                      unmarshal(BufferBytes(NewBuffer(BufferBytes(NewBuffer(Rest(body))))),
                                "cancelAux"))

(***************************************************************************)
(* The endpoint operations, from the response on.  Each takes the response *)
(* (StatusCode, Header) and rsp.Body as Client.do returned it and yields   *)
(* [val, hdr, err, body]: the three results and rsp.Body when the function *)
(* has returned, its deferred call included.                               *)
(***************************************************************************)
Result(val, h, err, body) == [val |-> val, hdr |-> SomeHeader(h), err |-> err, body |-> body]

\* if rsp.StatusCode != 200 { return zero, rsp.Header, NewStatusError(rsp) }
\* var v T; if err := unmarshal(rsp.Body, &v); err != nil { return zero, rsp.Header, err }
\* return v, rsp.Header, nil
\* The returns after unmarshal, with the header dropped when the decode failed.
unmarshalledNoHeader(rsp, body, ty, r) ==
    IF r.err
    THEN [val |-> ZeroValue(ty), hdr |-> NilHeader, err |-> DecodeError,
          body |-> ReadToEOF(body)]
    ELSE Result(r.v, rsp.Header, NoError, ReadToEOF(body))
unmarshalled(rsp, body, ty, r) ==
    IF r.err
    THEN Result(ZeroValue(ty), rsp.Header, DecodeError, ReadToEOF(body))
    ELSE Result(r.v, rsp.Header, NoError, ReadToEOF(body))
statusThenUnmarshal(rsp, body, success, ty) ==
    IF rsp.StatusCode # success
    THEN Result(ZeroValue(ty), rsp.Header,
                NewStatusError(rsp.StatusCode, rsp.Header, body), ReadToEOF(body))
    ELSE unmarshalled(rsp, body, ty, unmarshal(Rest(body), ty))

\* defer drainAndClose(rsp.Body)
deferDrainAndClose(r) == [r EXCEPT !.body = drainAndClose(@)]
\* The deferred Close left out.
deferNothing(r) == r
\* defer rsp.Body.Close()
deferClose(r) == [r EXCEPT !.body = CloseStream(@)]

\* RequestRide with every 2xx status taken as success.
RequestRideAny2xx(rsp, body) ==
    deferDrainAndClose(
        IF rsp.StatusCode \in 200..299
        THEN statusThenUnmarshal(rsp, body, rsp.StatusCode, "CreatedRide")
        ELSE IF rsp.StatusCode = 400
        THEN Result(Zero("CreatedRide"), rsp.Header,
                    newRideRequestError(rsp.Header, body), ReadToEOF(body))
        ELSE Result(Zero("CreatedRide"), rsp.Header,
                    NewStatusError(rsp.StatusCode, rsp.Header, body), ReadToEOF(body)))

RequestRide(rsp, body) ==
    deferDrainAndClose(
        IF rsp.StatusCode = 201
        THEN statusThenUnmarshal(rsp, body, 201, "CreatedRide")
        ELSE IF rsp.StatusCode = 400
        THEN Result(Zero("CreatedRide"), rsp.Header,
                    newRideRequestError(rsp.Header, body), ReadToEOF(body))
        ELSE Result(Zero("CreatedRide"), rsp.Header,
                    NewStatusError(rsp.StatusCode, rsp.Header, body), ReadToEOF(body)))

SetDestination(rsp, body) ==
    deferDrainAndClose(statusThenUnmarshal(rsp, body, 200, "Location"))

RideReceipt(rsp, body) ==
    deferDrainAndClose(statusThenUnmarshal(rsp, body, 200, "RideReceipt"))

CancelRide(rsp, body) ==
    deferDrainAndClose(
        IF rsp.StatusCode = 204
        THEN Result(0, rsp.Header, NoError, body)
        ELSE IF rsp.StatusCode = 400
        THEN Result(0, rsp.Header, newCancelRideError(rsp.Header, body), ReadToEOF(body))
        ELSE Result(0, rsp.Header,
                    NewStatusError(rsp.StatusCode, rsp.Header, body), ReadToEOF(body)))

RideDetail(rsp, body) ==
    deferDrainAndClose(statusThenUnmarshal(rsp, body, 200, "RideDetail"))

\* The list operations return the slice inside the response wrapper, nil on error.
unwrap(r, field) == [r EXCEPT !.val = @[field]]

RideHistory(rsp, body) ==
    deferClose(unwrap(statusThenUnmarshal(rsp, body, 200, "rideHistoryResponse"), "R"))

UserProfile(rsp, body) ==
    deferClose(statusThenUnmarshal(rsp, body, 200, "UserProfile"))

RideTypes(rsp, body) ==
    deferClose(unwrap(statusThenUnmarshal(rsp, body, 200, "rideTypesResponse"), "RideTypes"))

CostEstimates(rsp, body) ==
    deferClose(unwrap(statusThenUnmarshal(rsp, body, 200, "costEstimatesResponse"), "C"))

DriverETA(rsp, body) ==
    deferClose(unwrap(statusThenUnmarshal(rsp, body, 200, "etaEstimatesResponse"), "E"))

DriversNearby(rsp, body) ==
    deferClose(unwrap(statusThenUnmarshal(rsp, body, 200, "nearbyDriversResponse"), "N"))

\* Token{..., Expires: time.Second * time.Duration(g.Expires), Scopes: strings.Fields(g.Scopes)}
tokenOf(r) ==
    IF r.err.type = "nil"
    THEN [r EXCEPT !.val = Override(@, [Expires |-> Seconds(@.Expires),
                                        Scopes |-> Fields(@.Scopes)])]
    ELSE [r EXCEPT !.val = Override(@, [Expires |-> ZeroDuration, Scopes |-> <<>>])]

TwolegGenerateToken(rsp, body) ==
    deferDrainAndClose(tokenOf(statusThenUnmarshal(rsp, body, 200, "twolegToken")))

ThreelegGenerateToken(rsp, body) ==
    deferDrainAndClose(tokenOf(statusThenUnmarshal(rsp, body, 200, "threelegToken")))

RefreshToken(rsp, body) ==
    deferDrainAndClose(tokenOf(statusThenUnmarshal(rsp, body, 200, "refreshedToken")))

RevokeToken(rsp, body) ==
    deferDrainAndClose(
        IF rsp.StatusCode # 200
        THEN Result(0, rsp.Header,
                    NewStatusError(rsp.StatusCode, rsp.Header, body), ReadToEOF(body))
        ELSE Result(0, rsp.Header, NoError, body))

\* The methods of Client, which go through Client.do, and the functions of the
\* auth packages, which call the *http.Client they are given.
ClientOps ==
    {"RequestRide", "SetDestination", "RideReceipt", "CancelRide", "RideDetail",
     "RideHistory", "UserProfile", "RideTypes", "CostEstimates", "DriverETA",
     "DriversNearby"}
AuthOps ==
    {"twoleg.GenerateToken", "threeleg.GenerateToken", "threeleg.RefreshToken",
     "threeleg.RevokeToken"}
Ops == ClientOps \cup AuthOps

Endpoint(op, rsp, body) ==
    CASE op = "RequestRide" -> RequestRide(rsp, body)
      [] op = "SetDestination" -> SetDestination(rsp, body)
      [] op = "RideReceipt" -> RideReceipt(rsp, body)
      [] op = "CancelRide" -> CancelRide(rsp, body)
      [] op = "RideDetail" -> RideDetail(rsp, body)
      [] op = "RideHistory" -> RideHistory(rsp, body)
      [] op = "UserProfile" -> UserProfile(rsp, body)
      [] op = "RideTypes" -> RideTypes(rsp, body)
      [] op = "CostEstimates" -> CostEstimates(rsp, body)
      [] op = "DriverETA" -> DriverETA(rsp, body)
      [] op = "DriversNearby" -> DriversNearby(rsp, body)
      [] op = "twoleg.GenerateToken" -> TwolegGenerateToken(rsp, body)
      [] op = "threeleg.GenerateToken" -> ThreelegGenerateToken(rsp, body)
      [] op = "threeleg.RefreshToken" -> RefreshToken(rsp, body)
      [] op = "threeleg.RevokeToken" -> RevokeToken(rsp, body)

\* What each operation returns beside the header and the error when it fails.
ZeroResult(op) ==
    CASE op = "RequestRide" -> Zero("CreatedRide")
      [] op = "SetDestination" -> Zero("Location")
      [] op = "RideReceipt" -> ZeroValue("RideReceipt")
      [] op = "RideDetail" -> ZeroValue("RideDetail")
      [] op = "UserProfile" -> Zero("UserProfile")
      [] op \in {"RideHistory", "RideTypes", "CostEstimates", "DriverETA", "DriversNearby"} -> <<>>
      [] op = "twoleg.GenerateToken" ->
            Override(Zero("twolegToken"), [Expires |-> ZeroDuration, Scopes |-> <<>>])
      [] op = "threeleg.GenerateToken" ->
            Override(Zero("threelegToken"), [Expires |-> ZeroDuration, Scopes |-> <<>>])
      [] op = "threeleg.RefreshToken" ->
            Override(Zero("refreshedToken"), [Expires |-> ZeroDuration, Scopes |-> <<>>])
      [] op \in {"CancelRide", "threeleg.RevokeToken"} -> 0

(***************************************************************************)
(* The responses a server (or a proxy in front of it) may send             *)
(***************************************************************************)
\* Elements per list in the list-valued bodies.
MaxElems == 2

S(x) == <<Str(x)>>
N(x) == <<Num(x)>>
RECURSIVE Repeat(_, _)
Repeat(e, k) == IF k = 0 THEN <<>> ELSE <<e>> \o Repeat(e, k - 1)

\* Bodies of error responses, for any endpoint.
ErrorBodies ==
    { <<>>,
      <<JUNK>>,
      <<LB, Str("error"), COLON>>,
      Arr(<<>>),
      Obj(<<KV("error", N(5))>>),
      Obj(<<KV("error", S("token_expired"))>>),
      Obj(<<KV("error", S("invalid_token")),
            KV("error_description", S("bad token")),
            KV("error_detail", Arr(<<Obj(<<KV("field", S("msg"))>>)>>))>>) }

\* Bodies the ride request endpoint sends with status 400.
RideRequestBodies ==
    { Obj(<<KV("error", S("confirmation_required")), KV("cost_token", S("abc"))>>),
      Obj(<<KV("error", S("confirmation_required")), KV("cost_token", S("abc")),
            KV("token_duration", S("60"))>>),
      Obj(<<KV("error", S("confirmation_required")), KV("cost_token", S("abc")),
            KV("token_duration", N(60))>>),
      Obj(<<KV("error", S("primetime_confirmation_required")),
            KV("primetime_percentage", S("25%")),
            KV("primetime_confirmation_token", S("pt")),
            KV("token_duration", S("soon"))>>) }

\* Cancellation fees: the amount (whole and tenths), currency, token and the
\* token's life in seconds.
CancelFees ==
    { [whole |-> 5, tenth |-> 0, currency |-> "USD", token |-> "tok123", seconds |-> 300],
      [whole |-> 7, tenth |-> 5, currency |-> "EUR", token |-> "tok456", seconds |-> 60] }
FeeMembers(f) ==
    <<KV("amount", <<Dec(f.whole, f.tenth)>>), KV("currency", S(f.currency)),
      KV("token", S(f.token)), KV("token_duration", N(f.seconds))>>
FeeBody(f) == Obj(FeeMembers(f))
FeeBodyWithError(f) ==
    Obj(<<KV("error", S("cancel_confirmation_required")),
          KV("error_description", S("fee applies"))>> \o FeeMembers(f))

\* Bodies the ride cancel endpoint sends with status 400.
CancelRideBodies ==
    {FeeBody(f) : f \in CancelFees} \cup {FeeBodyWithError(f) : f \in CancelFees}
        \cup { Obj(<<KV("amount", <<Dec(5, 0)>>), KV("currency", S("USD")),
                     KV("token", S("tok123")), KV("token_duration", S("300"))>>) }

LocationBody == Obj(<<KV("lat", <<Dec(37, 7)>>), KV("lng", <<Dec(-122, 2)>>), KV("address", S("1 Main St"))>>)
PersonBody == Obj(<<KV("first_name", S("Ann")), KV("rating", S("5"))>>)
CreatedRideBody ==
    Obj(<<KV("ride_id", S("r1")), KV("status", S("pending")), KV("ride_type", S("lyft")),
          KV("origin", LocationBody), KV("destination", <<NULL>>), KV("passenger", PersonBody)>>)
\* A ride detail whose timestamps are all ts; webhook-like when bare.
RideDetailBody(ts) ==
    Obj(<<KV("ride_id", S("r1")), KV("status", S("accepted")),
          KV("origin", Obj(<<KV("lat", <<Dec(37, 7)>>), KV("eta_seconds", N(120))>>)),
          KV("pickup", Obj(<<KV("lat", <<Dec(37, 7)>>), KV("time", S(ts))>>)),
          KV("duration_seconds", N(600)),
          KV("requested_at", S(ts)),
          KV("can_cancel", Arr(<<S("passenger")>>)),
          KV("cancellation_price",
             Obj(<<KV("amount", N(500)), KV("token", S("ct")), KV("token_duration", N(60))>>)),
          KV("generated_at", S("ignored"))>>)
\* A ride detail with a timestamp at one location only.
LocationKeys == {"origin", "pickup", "destination", "dropoff"}
LocationTimeBody(key, ts) ==
    Obj(<<KV("ride_id", S("r1")), KV(key, Obj(<<KV("time", S(ts))>>))>>)
BareRideDetailBody == Obj(<<KV("ride_id", S("r1")), KV("status", S("pending"))>>)
RideReceiptBody(ts) ==
    Obj(<<KV("ride_id", S("r1")),
          KV("price", Obj(<<KV("amount", N(1200)), KV("currency", S("USD"))>>)),
          KV("line_items", Arr(<<Obj(<<KV("amount", N(1200)), KV("type", S("fare"))>>)>>)),
          KV("charges", Arr(<<Obj(<<KV("amount", N(1200)), KV("payment_method", S("card"))>>)>>)),
          KV("requested_at", S(ts))>>)
UserProfileBody ==
    Obj(<<KV("id", S("u1")), KV("first_name", S("Ann")), KV("has_taken_a_ride", <<TRUE_>>)>>)
RideTypeBody ==
    Obj(<<KV("display_name", S("Lyft")), KV("ride_type", S("lyft")), KV("seats", N(4)),
          KV("pricing_details", Obj(<<KV("base_charge", N(200)), KV("currency", S("USD"))>>))>>)
CostEstimateBody ==
    Obj(<<KV("ride_type", S("lyft")), KV("estimated_cost_cents_max", N(1500)),
          KV("estimated_distance_miles", <<Dec(3, 2)>>),
          KV("estimated_duration_seconds", N(120)),
          KV("is_valid_estimate", <<TRUE_>>)>>)
ETAEstimateBody ==
    Obj(<<KV("ride_type", S("lyft")), KV("eta_seconds", N(120)),
          KV("is_valid_estimate", <<TRUE_>>)>>)
NearbyDriverBody ==
    Obj(<<KV("ride_type", S("lyft")),
          KV("drivers", Arr(<<Obj(<<KV("locations",
                Arr(<<Obj(<<KV("lat", <<Dec(37, 7)>>), KV("lng", <<Dec(-122, 2)>>)>>)>>))>>)>>))>>)
TokenBody(scope) ==
    Obj(<<KV("access_token", S("at2")), KV("refresh_token", S("rt")),
          KV("token_type", S("Bearer")), KV("expires_in", N(3600)), KV("scope", S(scope))>>)

GoodTimestamps == {"", "2017-11-05T10:00:00Z", "2017-11-05T10:00:00+05:30"}
BadTimestamps == {"2017-11-05 10:00:00", "2017-13-05T10:00:00Z", "yesterday"}

\* {"key": [e, e, ...]} with 0..MaxElems elements.
Listings(key, e) == {Obj(<<KV(key, Arr(Repeat(e, k)))>>) : k \in 0..MaxElems}

\* For each operation with a response body: bodies that follow the documented
\* schema of its success response ...
WellFormed(op) ==
    CASE op = "RequestRide" -> {CreatedRideBody}
      [] op = "SetDestination" -> {LocationBody}
      [] op = "RideReceipt" -> {RideReceiptBody(ts) : ts \in GoodTimestamps}
      [] op = "RideDetail" ->
            {RideDetailBody(ts) : ts \in GoodTimestamps} \cup {BareRideDetailBody}
                \cup {LocationTimeBody(k, "2017-11-05T10:00:00+05:30") : k \in LocationKeys}
      [] op = "RideHistory" ->
            UNION {Listings("ride_history", RideDetailBody(ts)) : ts \in GoodTimestamps}
      [] op = "UserProfile" -> {UserProfileBody}
      [] op = "RideTypes" -> Listings("ride_types", RideTypeBody)
      [] op = "CostEstimates" -> Listings("cost_estimates", CostEstimateBody)
      [] op = "DriverETA" -> Listings("eta_estimates", ETAEstimateBody)
      [] op = "DriversNearby" -> Listings("nearby_drivers", NearbyDriverBody)
      [] op \in {"twoleg.GenerateToken", "threeleg.GenerateToken", "threeleg.RefreshToken"} ->
            {TokenBody(sc) : sc \in {"", "public", "public  offline"}}
      [] OTHER -> {}

\* ... and bodies that are JSON but break it.
Malformed(op) ==
    CASE op = "RequestRide" -> {Obj(<<KV("ride_id", N(7))>>)}
      [] op = "SetDestination" -> {Obj(<<KV("lat", S("37.7"))>>)}
      [] op = "RideReceipt" -> {RideReceiptBody(ts) : ts \in BadTimestamps}
      [] op = "RideDetail" ->
            {RideDetailBody(ts) : ts \in BadTimestamps}
                \cup {LocationTimeBody(k, "yesterday") : k \in LocationKeys}
      [] op = "RideHistory" ->
            {Obj(<<KV("ride_history", Arr(<<RideDetailBody("yesterday")>>))>>),
             Obj(<<KV("ride_history", BareRideDetailBody)>>)}
      [] op = "UserProfile" -> {Obj(<<KV("has_taken_a_ride", S("yes"))>>)}
      [] op = "RideTypes" -> {Obj(<<KV("ride_types", Arr(<<Obj(<<KV("seats", S("4"))>>)>>))>>)}
      [] op = "CostEstimates" ->
            {Obj(<<KV("cost_estimates",
                      Arr(<<Obj(<<KV("estimated_duration_seconds", <<Dec(120, 5)>>)>>)>>))>>)}
      [] op = "DriverETA" ->
            {Obj(<<KV("eta_estimates", Arr(<<Obj(<<KV("eta_seconds", S("120"))>>)>>))>>)}
      [] op = "DriversNearby" -> {Obj(<<KV("nearby_drivers", S("none"))>>)}
      [] op \in {"twoleg.GenerateToken", "threeleg.GenerateToken", "threeleg.RefreshToken"} ->
            {Obj(<<KV("expires_in", S("3600"))>>)}
      [] OTHER -> {}

BodiesFor(op) ==
    ErrorBodies \cup WellFormed(op) \cup Malformed(op)
        \cup (IF op = "RequestRide" THEN RideRequestBodies ELSE {})
        \cup (IF op = "CancelRide" THEN CancelRideBodies ELSE {})

Statuses == {200, 201, 204, 400, 401, 429}

\* Response headers as the program finds them in rsp.Header.  net/http stores
\* a header under its canonical key ("Error" for a header line "error: ...");
\* a RoundTripper of the caller's HTTPClient may store any key.
RspHeaders ==
    { EmptyHeader,
      [EmptyHeader EXCEPT !["error"] = <<"token_expired">>],
      [EmptyHeader EXCEPT !["error"] = <<"insufficient_scope", "second">>],
      [EmptyHeader EXCEPT !["Error"] = <<"token_expired">>] }

Responses(op) == [StatusCode : Statuses, Header : RspHeaders, Body : BodiesFor(op)]

(***************************************************************************)
(* Webhooks (package webhook): Signature, Verify, DecodeEvent              *)
(***************************************************************************)
\* hmac.New(sha256.New, key) written msg, then Sum: the digest, held as the
\* pair that determines it; distinct pairs have distinct digests.
HMACSHA256(key, msg) == [key |-> key, msg |-> msg]
\* A text in base64: the digest it encodes, and which of the texts of that
\* digest it is; "std" is the one base64.StdEncoding writes.
Base64Std(d) == [mac |-> d, enc |-> "std"]
\* The empty text.
NoText == [mac |-> HMACSHA256("", <<>>), enc |-> ""]
\* A value of X-Lyft-Signature: "sha256=" `prefixes` times, then the text.
SignatureValue(n, text) == [prefixes |-> n, text |-> text]
\* strings.TrimPrefix(v, "sha256=")
TrimPrefix(v) == IF v.prefixes > 0 THEN [v EXCEPT !.prefixes = @ - 1] ELSE v
\* h.Get("X-Lyft-Signature"), h being the values under that key.
HeaderGet(h) == IF Len(h) = 0 THEN SignatureValue(0, NoText) ELSE h[1]
Signature(h) == TrimPrefix(HeaderGet(h))

\* Verify with the signature decoded and the digests compared.
VerifyDecoded(requestBody, signature, verificationToken) ==
    [ok |-> /\ signature.prefixes = 0 /\ signature.text.enc # ""
            /\ signature.text.mac = HMACSHA256(verificationToken, requestBody),
     err |-> FALSE]
\* Verify: the MAC of the body is encoded and hmac.Equal compares the text
\* with the signature, byte by byte.
Verify(requestBody, signature, verificationToken) ==
    [ok |-> signature =
              SignatureValue(0, Base64Std(HMACSHA256(verificationToken, requestBody))),
     err |-> FALSE]

ErrVerify == [type |-> "ErrVerify"]
\* The error of a Read of the request body.
ReadError == [type |-> "read"]

\* The request body: a reader that ends with io.EOF or, when broken, with an
\* error.
NewBody(data, broken) ==
    [data |-> data, pos |-> 0, eof |-> FALSE, closed |-> 0, broken |-> broken,
     failed |-> FALSE]
NoBody == NewBody(<<>>, FALSE)
\* Reads until io.EOF or an error.
ReadAllBody(st) ==
    IF st.broken THEN [st EXCEPT !.failed = TRUE]
    ELSE [st EXCEPT !.pos = Len(st.data), !.eof = TRUE]
\* drainAndClose(requestBody), deferred
drainAndCloseBody(st) == [ReadAllBody(st) EXCEPT !.closed = @ + 1]

\* What DecodeEvent leaves: the Event and error returned, the body, and the
\* locals sig = Signature(h) and ok of Verify.
Decoded(e, err, st, sig, ok) == [e |-> e, err |-> err, body |-> st, sig |-> sig, ok |-> ok]

\* return e, unmarshal(decodeBuf, &e): r is the result of the unmarshal.  Go
\* does not order the read of e and the call; late tells that e is read
\* after it.
returnEvent(r, late, st, sig) ==
    Decoded(IF late THEN r.v ELSE ZeroEvent, IF r.err THEN DecodeError ELSE NoError,
            st, sig, TRUE)

\* DecodeEvent with the body decoded before the signature is looked at.
DecodeEventUnverified(requestBody, h, verificationToken, late) ==
    IF requestBody.broken
    THEN Decoded(ZeroEvent, ReadError, drainAndCloseBody(ReadAllBody(requestBody)),
                 SignatureValue(0, NoText), FALSE)
    ELSE IF unmarshal(requestBody.data, "Event").err
    THEN Decoded(ZeroEvent, DecodeError, drainAndCloseBody(ReadAllBody(requestBody)),
                 Signature(h), FALSE)
    ELSE IF ~Verify(requestBody.data, Signature(h), verificationToken).ok
    THEN Decoded(ZeroEvent, ErrVerify, drainAndCloseBody(ReadAllBody(requestBody)),
                 Signature(h), FALSE)
    ELSE returnEvent(unmarshal(requestBody.data, "Event"), late,
                     drainAndCloseBody(ReadAllBody(requestBody)), Signature(h))

\* DecodeEvent: verifyBuf reads the whole body, decodeBuf is a second buffer
\* over verifyBuf.Bytes().
DecodeEvent(requestBody, h, verificationToken, late) ==
    IF requestBody.broken
    THEN Decoded(ZeroEvent, ReadError, drainAndCloseBody(ReadAllBody(requestBody)),
                 SignatureValue(0, NoText), FALSE)
    ELSE IF ~Verify(BufferBytes(NewBuffer(requestBody.data)), Signature(h),
                    verificationToken).ok
    THEN Decoded(ZeroEvent, ErrVerify, drainAndCloseBody(ReadAllBody(requestBody)),
                 Signature(h), FALSE)
    ELSE returnEvent(unmarshal(BufferBytes(NewBuffer(BufferBytes(
                                   NewBuffer(requestBody.data)))), "Event"),
                     late, drainAndCloseBody(ReadAllBody(requestBody)), Signature(h))

\* Webhook requests: the bodies, and for each body and verification token
\* the X-Lyft-Signature values a request may come with.
EventIDs == {"sandboxevent-1", "event-2"}
EventBody(id, ts) ==
    Obj(<<KV("event_id", S(id)), KV("href", S("https://api.lyft.com/v1/rides/r1")),
          KV("occurred_at", S(ts)), KV("event_type", S("ride.status.updated")),
          KV("event", BareRideDetailBody)>>)
EventTimestamps == {"", "2017-11-05T10:00:00Z", "yesterday"}
EventBodies ==
    {EventBody(id, ts) : id \in EventIDs, ts \in EventTimestamps}
        \cup {<<>>, <<JUNK>>, Obj(<<KV("event_id", S("event-2"))>>)}
VerificationToken == "s1"
Signed(key, msg) == Base64Std(HMACSHA256(key, msg))
SignatureHeaders(b) ==
    { <<>>,
      <<SignatureValue(1, Signed(VerificationToken, b))>>,
      <<SignatureValue(0, Signed(VerificationToken, b))>>,
      <<SignatureValue(2, Signed(VerificationToken, b))>>,
      <<SignatureValue(1, [mac |-> HMACSHA256(VerificationToken, b), enc |-> "other"])>>,
      <<SignatureValue(1, Signed("s2", b))>>,
      <<SignatureValue(1, Signed(VerificationToken, <<JUNK>> \o b))>>,
      <<SignatureValue(1, Signed("s2", b)), SignatureValue(1, Signed(VerificationToken, b))>> }

(***************************************************************************)
(* The state machine: a caller holding one Client makes one call at a time *)
(* and a webhook handler decodes one request at a time                     *)
(***************************************************************************)
VARIABLES
    client,     \* the Client: AccessToken, Header, BaseURL, HTTPClient, debug
    pc,         \* "idle", "sent" (the executor has the request), "returned", "panic",
                \* "decoded" (DecodeEvent has returned)
    call,       \* the operation called and its arguments
    req,        \* the *http.Request as handed to the executor
    rsp,        \* the *http.Response of the executor
    body,       \* the response's body streams: the connection's, and the copy
                \* httputil.DumpResponse puts in its place
    ret,        \* what the operation returned: val, hdr, err
    hook,       \* the webhook request handed to DecodeEvent (late: the Event
                \* returned is read after the unmarshal) and what it left
    callers,    \* for each of the goroutines that share the Client: the call
                \* it is in, with its own pc, call, req, rsp, body and ret
    cli,        \* the lyft command that is running: its flags, its locals and
                \* the statement it is at
    internalFile, \* the Internal stored in the internal file of the home directory
    sent,       \* the requests the command has sent, each with its answer
    desktop     \* the desktop notifications the command has sent

vars == <<client, pc, call, req, rsp, body, ret, hook, callers,
          cli, internalFile, sent, desktop>>
\* The variables of the package's callers and those of the command.
libVars == <<pc, call, req, rsp, body, ret, hook, callers>>
cliVars == <<cli, internalFile, sent, desktop>>

ClientHeaders ==
    { EmptyHeader,
      [EmptyHeader EXCEPT !["X-Trace"] = <<"a", "b">>],
      [EmptyHeader EXCEPT !["Authorization"] = <<"Basic abc">>] }
\* debug is set only from inside the package; the clients of the model that
\* have it set carry no extra header.
Clients ==
    {c \in [AccessToken : {"tok"}, Header : ClientHeaders, BaseURL : {""},
            HTTPClient : {"nil"}, debug : BOOLEAN] :
        c.debug => c.Header = EmptyHeader}

\* url.Values: the values under each key of the query.
QueryKeys ==
    {"lat", "lng", "start_lat", "start_lng", "end_lat", "end_lng",
     "destination_lat", "destination_lng", "ride_type"}
NoValues == [k \in QueryKeys |-> <<>>]
\* vals.Set(k, s)
ValuesSet(vals, k, s) == [j \in QueryKeys |-> IF j = k THEN <<s>> ELSE vals[j]]
\* if cond { vals.Set(k, s) }
SetIf(vals, cond, k, s) == IF cond THEN ValuesSet(vals, k, s) ELSE vals

\* strconv.FormatFloat(n, 'f', -1, 64) of a float64 held in tenths: the
\* shortest decimal text that reads back as n.
FormatTenths(m) ==
    ToString(m \div 10) \o (IF m % 10 = 0 THEN "" ELSE "." \o ToString(m % 10))
formatFloat(n) == IF n < 0 THEN "-" \o FormatTenths(0 - n) ELSE FormatTenths(n)

\* const IgnoreArg float64 = -181, in tenths.
IgnoreArg == -1810

\* The query each operation builds from its arguments a.
RideTypesQuery(a) ==
    SetIf(ValuesSet(ValuesSet(NoValues, "lat", formatFloat(a.lat)),
                    "lng", formatFloat(a.lng)),
          a.rideType # "", "ride_type", a.rideType)
CostEstimatesQuery(a) ==
    SetIf(SetIf(SetIf(ValuesSet(ValuesSet(NoValues, "start_lat", formatFloat(a.lat)),
                                "start_lng", formatFloat(a.lng)),
                      a.endLat # IgnoreArg, "end_lat", formatFloat(a.endLat)),
                a.endLng # IgnoreArg, "end_lng", formatFloat(a.endLng)),
          a.rideType # "", "ride_type", formatFloat(a.endLng))
DriverETAQuery(a) ==
    SetIf(SetIf(SetIf(ValuesSet(ValuesSet(NoValues, "lat", formatFloat(a.lat)),
                                "lng", formatFloat(a.lng)),
                      a.endLat # IgnoreArg, "destination_lat", formatFloat(a.endLat)),
                a.endLng # IgnoreArg, "destination_lng", formatFloat(a.endLng)),
          a.rideType # "", "ride_type", formatFloat(a.endLng))
DriversNearbyQuery(a) ==
    ValuesSet(ValuesSet(NoValues, "lat", formatFloat(a.lat)), "lng", formatFloat(a.lng))
NewRequestQuery(op, a) ==
    CASE op = "RideTypes" -> RideTypesQuery(a)
      [] op = "CostEstimates" -> CostEstimatesQuery(a)
      [] op = "DriverETA" -> DriverETAQuery(a)
      [] op = "DriversNearby" -> DriversNearbyQuery(a)
      [] OTHER -> NoValues

\* The arguments of a call that the model tells apart.
NoArgs == [cancelToken |-> "", rideType |-> "", lat |-> 0, lng |-> 0,
           endLat |-> IgnoreArg, endLng |-> IgnoreArg]
NoCall == [op |-> "", args |-> NoArgs]
NoRequest == [Header |-> EmptyHeader, Query |-> NoValues]
NoResponse == [nil |-> TRUE, StatusCode |-> 0, Header |-> EmptyHeader, Body |-> "net"]
NoBodies == [net |-> NoStream, dump |-> NoStream]
NoReturn == [val |-> 0, hdr |-> NilHeader, err |-> NoError]
NoHook ==
    [h |-> <<>>, token |-> "", late |-> FALSE,
     out |-> Decoded(ZeroEvent, NoError, NoBody, SignatureValue(0, NoText), FALSE)]

\* The goroutines that call the Client at the same time.
NCallers == 2
Callers == 1..NCallers
NoCaller ==
    [pc |-> "idle", call |-> NoCall, req |-> NoRequest, rsp |-> NoResponse,
     body |-> NoBodies, ret |-> NoReturn]

(***************************************************************************)
(* The lyft command (package main): its flags, the internal file, the ride *)
(* request it encodes and the answers of the server it is run against      *)
(***************************************************************************)
\* The flags as main collects them: -w (-watch), -t (-notify), -n (-dry-run).
Flags(w, t, n) == [notifications |-> t, dryRun |-> n, watch |-> w \/ t]

\* The configuration of the user and the Internal that goes with it.
Config == [ClientID |-> "id", ClientSecret |-> "secret"]
matches(i, c) == i.ClientID = c.ClientID /\ i.ClientSecret = c.ClientSecret
\* json.Marshal(inter): the fields of Internal carry no tags.
MarshalInternal(i) ==
    Obj(<<KV("ClientID", <<Str(i.ClientID)>>), KV("ClientSecret", <<Str(i.ClientSecret)>>),
          KV("AccessToken", <<Str(i.AccessToken)>>),
          KV("RefreshToken", <<Str(i.RefreshToken)>>)>>)
\* The internal file as an earlier run of the command left it.
StoredInternal ==
    MarshalInternal([ClientID |-> "id", ClientSecret |-> "secret",
                     AccessToken |-> "tok", RefreshToken |-> "ref"])
\* ensureInternal(c) when the internal file is there and in sync: [err, v].
ensureInternal(file) == JSONUnmarshal(file, "Internal")

\* lyft.Client{AccessToken: inter.AccessToken} (lyft.NewClient in part_005)
NewClient(accessToken) ==
    [AccessToken |-> accessToken, Header |-> EmptyHeader, BaseURL |-> "",
     HTTPClient |-> "nil", debug |-> FALSE]

\* A *Location of the command: nil, or the place the user gave.
NoLocation == [nil |-> TRUE, Lat |-> 0, Lng |-> 0, Address |-> ""]
Place(lat, lng, address) == [nil |-> FALSE, Lat |-> lat, Lng |-> lng, Address |-> address]
StartLocation == Place(377, -1222, "1 Main St")
EndLocations == {NoLocation, Place(378, -1224, "2 Main St")}

\* req := lyft.RideRequest{Origin: ..., RideType: ...}; if r.End != nil
\* { req.Destination = ... }
lyftLocation(l) == [Latitude |-> l.Lat, Longitude |-> l.Lng, Address |-> l.Address]
NewRideRequest(start, end, rideType) ==
    [Origin |-> lyftLocation(start),
     Destination |-> IF ~end.nil THEN lyftLocation(end) ELSE Zero("Location"),
     RideType |-> rideType,
     CostToken |-> ""]
NoRideRequest == NewRideRequest(NoLocation, NoLocation, "")

\* json.NewEncoder(&buf).Encode(req): a float64 is written in its shortest
\* form, and no field of RideRequest or Location is marked omitempty.
EncodeFloat(f) == Tok("num", IF f % 10 = 0 THEN "" ELSE ".", f)
EncodeLocation(l) ==
    Obj(<<KV("lat", <<EncodeFloat(l.Latitude)>>), KV("lng", <<EncodeFloat(l.Longitude)>>),
          KV("address", <<Str(l.Address)>>)>>)
\* json.NewEncoder(&buf).Encode(req): every field of RideRequest is written.
EncodeRideRequest(r) ==
    Obj(<<KV("origin", EncodeLocation(r.Origin)),
          KV("destination", EncodeLocation(r.Destination)),
          KV("ride_type", <<Str(r.RideType)>>), KV("cost_token", <<Str(r.CostToken)>>)>>)

\* parseYes: 'yes' unless the input says no.
parseYes(s) == s \notin {"no", "n", "NO", "No", "N"}
Inputs == {"", "y", "no", "N"}

\* The ride statuses of the package.
StatusPending == "pending"
StatusAccepted == "accepted"
StatusArrived == "arrived"
StatusPickedUp == "pickedUp"
StatusDroppedOff == "droppedOff"
StatusCanceled == "canceled"
StatusUnknown == "unknown"
RideStatuses ==
    {StatusPending, StatusAccepted, StatusArrived, StatusPickedUp, StatusDroppedOff,
     StatusCanceled, StatusUnknown}

\* What the server answers to the requests of the command.
Answer(status, b) == [StatusCode |-> status, Header |-> EmptyHeader, Body |-> b]
StatusBody(s) == Obj(<<KV("ride_id", <<Str("r1")>>), KV("status", <<Str(s)>>)>>)
Answers(op) ==
    CASE op = "RequestRide" ->
            {Answer(201, CreatedRideBody), Answer(401, <<>>),
             Answer(400, Obj(<<KV("error", <<Str("confirmation_required")>>)>>))}
      [] op = "CancelRide" ->
            {Answer(204, <<>>), Answer(401, <<>>),
             Answer(401, Obj(<<KV("error", <<Str("invalid_token")>>)>>))}
                \cup {Answer(400, FeeBody(f)) : f \in CancelFees}
      [] op = "RideDetail" ->
            {Answer(200, StatusBody(s)) : s \in RideStatuses}
                \cup {Answer(401, <<>>), Answer(500, <<>>)}
      [] op = "threeleg.RefreshToken" ->
            {Answer(200, TokenBody("public")), Answer(400, <<>>)}
      [] OTHER -> {}

\* No command is running.
NoCommand ==
    [fn |-> "", impl |-> "", flags |-> Flags(FALSE, FALSE, FALSE), at |-> "idle",
     op |-> "", retry |-> FALSE, inter |-> Zero("Internal"), req |-> NoRideRequest,
     end |-> NoLocation, cancelToken |-> "", expireRetry |-> FALSE, input |-> "",
     err |-> NoError, status |-> "", token |-> "", notified |-> {}, printed |-> 0,
     exit |-> ""]

Init ==
    /\ client \in Clients
    /\ pc = "idle"
    /\ call = NoCall
    /\ req = NoRequest
    /\ rsp = NoResponse
    /\ body = NoBodies
    /\ ret = NoReturn
    /\ hook = NoHook
    /\ callers = [i \in Callers |-> NoCaller]
    /\ cli = NoCommand
    /\ internalFile = StoredInternal
    /\ sent = <<>>
    /\ desktop = <<>>

\* addHeader: every value of every key of c.Header is added to h.
RECURSIVE AddAll(_, _, _)
AddAll(h, k, values) ==
    IF Len(values) = 0 THEN h
    ELSE AddAll(HeaderAdd(h, k, values[1]), k, Tail(values))
addHeader(c, h) == [k \in HeaderKeys |-> AddAll(h, k, c.Header[k])[k]]

authorize(c, h) == HeaderAdd(h, "Authorization", "Bearer " \o c.AccessToken)

\* The header of the request each operation builds before it is sent.
NewRequestHeader(op, cancelToken) ==
    IF op \in {"RequestRide", "SetDestination"} \/ (op = "CancelRide" /\ cancelToken # "")
    THEN HeaderSet(EmptyHeader, "Content-Type", "application/json")
    ELSE IF op \in AuthOps
    THEN HeaderSet(HeaderSet(EmptyHeader, "Content-Type", "application/json"),
                   "Authorization", "Basic id:secret")
    ELSE EmptyHeader

\* The operation is called; its request is built and, for a method of Client,
\* Client.do adds the headers and the credentials; the executor takes it.
Call(op, a) ==
    /\ pc = "idle"
    /\ call' = [op |-> op, args |-> a]
    /\ req' = [Header |->
                 IF op \in ClientOps
                 THEN authorize(client, addHeader(client, NewRequestHeader(op, a.cancelToken)))
                 ELSE NewRequestHeader(op, a.cancelToken),
               Query |-> NewRequestQuery(op, a)]
    /\ pc' = "sent"
    /\ rsp' = NoResponse
    /\ body' = NoBodies
    /\ ret' = NoReturn
    /\ UNCHANGED <<client, hook, callers>>
    /\ UNCHANGED cliVars

\* http.NewRequest (or the encoding of the request body) fails: the operation
\* returns the error and a nil header.
ConstructFail(op, a) ==
    /\ pc = "idle"
    /\ call' = [op |-> op, args |-> a]
    /\ req' = NoRequest
    /\ rsp' = NoResponse
    /\ body' = NoBodies
    /\ ret' = [val |-> ZeroResult(op), hdr |-> NilHeader, err |-> RequestError]
    /\ pc' = "returned"
    /\ UNCHANGED <<client, hook, callers>>
    /\ UNCHANGED cliVars

\* httputil.DumpResponse(rsp, true): drainBody reads the body to its end, closes
\* it and leaves a fresh reader over the same bytes in rsp.Body.
DumpResponse(b) ==
    [net |-> CloseStream(ReadToEOF(b.net)), dump |-> NewStream(Rest(b.net))]

\* The response r is with the caller of Client.do: b holds the bodies, rsp.Body
\* is b[which], and out is what the operation returns.
Return(r, b, which, out) ==
    /\ rsp' = [nil |-> FALSE, StatusCode |-> r.StatusCode, Header |-> r.Header,
               Body |-> which]
    /\ body' = [b EXCEPT ![which] = out.body]
    /\ ret' = [val |-> out.val, hdr |-> out.hdr, err |-> out.err]
    /\ pc' = "returned"
    /\ UNCHANGED <<client, call, req, hook, callers>>
    /\ UNCHANGED cliVars

\* The rest of the operation on the body b[which].
Operate(r, b, which) == Return(r, b, which, Endpoint(call.op, r, b[which]))

\* A response arrives: the rest of Client.do, then the rest of the operation.
Respond(r) ==
    /\ pc = "sent"
    /\ Operate(r,
               IF call.op \in ClientOps /\ client.debug
               THEN DumpResponse([net |-> NewStream(r.Body), dump |-> NoStream])
               ELSE [net |-> NewStream(r.Body), dump |-> NoStream],
               IF call.op \in ClientOps /\ client.debug THEN "dump" ELSE "net")

\* The executor fails and returns no response.  With debug set, Client.do
\* passes the nil response to httputil.DumpResponse, which dereferences it.
TransportFail ==
    /\ pc = "sent"
    /\ rsp' = NoResponse
    /\ IF call.op \in ClientOps /\ client.debug
       THEN pc' = "panic" /\ UNCHANGED ret
       ELSE /\ pc' = "returned"
            /\ ret' = [val |-> ZeroResult(call.op), hdr |-> NilHeader, err |-> TransportError]
    /\ UNCHANGED <<client, call, req, body, hook, callers>>
    /\ UNCHANGED cliVars

\* A webhook request with body b and signature values h arrives and the
\* handler calls DecodeEvent, which runs to its return.
Deliver(b, broken, h, late) ==
    /\ pc = "idle"
    /\ hook' = [h |-> h, token |-> VerificationToken, late |-> late,
                out |-> DecodeEvent(NewBody(b, broken), h, VerificationToken, late)]
    /\ pc' = "decoded"
    /\ UNCHANGED <<client, call, req, rsp, body, ret, callers>>
    /\ UNCHANGED cliVars

\* The caller is done with the results.
Done ==
    /\ pc \in {"returned", "decoded"}
    /\ pc' = "idle"
    /\ call' = NoCall
    /\ req' = NoRequest
    /\ rsp' = NoResponse
    /\ body' = NoBodies
    /\ ret' = NoReturn
    /\ hook' = NoHook
    /\ UNCHANGED <<client, callers>>
    /\ UNCHANGED cliVars

CancelTokens == {"", "tok123"}
RideTypeArgs == {"", "lyft"}
Args(op) ==
    CASE op = "CancelRide" -> {[NoArgs EXCEPT !.cancelToken = t] : t \in CancelTokens}
      [] op \in {"RideTypes", "DriversNearby"} ->
            {[NoArgs EXCEPT !.lat = 377, !.lng = -1222, !.rideType = t] :
                t \in IF op = "RideTypes" THEN RideTypeArgs ELSE {""}}
      [] op \in {"CostEstimates", "DriverETA"} ->
            {[NoArgs EXCEPT !.lat = 377, !.lng = -1222, !.rideType = t,
                            !.endLat = x, !.endLng = y] :
                t \in RideTypeArgs, x \in {IgnoreArg, 378}, y \in {IgnoreArg, -1224}}
      [] OTHER -> {NoArgs}

\* The webhook requests: each body with each of its X-Lyft-Signature values.
Deliveries == UNION {{<<b, h>> : h \in SignatureHeaders(b)} : b \in EventBodies}

Next ==
    \/ \E op \in Ops : \E t \in Args(op) : Call(op, t)
    \/ \E op \in Ops : \E t \in Args(op) : ConstructFail(op, t)
    \/ \E r \in Responses(call.op) : Respond(r)
    \/ TransportFail
    \/ \E d \in Deliveries : \E broken, late \in BOOLEAN :
          Deliver(d[1], broken, d[2], late)
    \/ Done

Spec == Init /\ [][Next]_vars

(***************************************************************************)
(* Several goroutines calling methods of the one Client at the same time.  *)
(* Each call has its own request, response and results; the Client is only *)
(* read.  The steps of a call are those of the state machine above.        *)
(***************************************************************************)
ConcOps == {"RideTypes", "CancelRide"}
ConcArgs(op) ==
    IF op = "RideTypes"
    THEN {[NoArgs EXCEPT !.lat = 377, !.lng = -1222, !.rideType = "lyft"]}
    ELSE {[NoArgs EXCEPT !.cancelToken = "tok123"]}
ConcResponses ==
    [StatusCode : {200, 204, 401}, Header : {EmptyHeader},
     Body : {Obj(<<KV("ride_types", Arr(<<RideTypeBody>>))>>), <<>>}]

\* The panic of one goroutine ends the program.
Running == \A i \in Callers : callers[i].pc # "panic"

\* The call of goroutine i becomes c, a request written to every call in
\* flight as if the Client held the request being sent.
CallerSetShared(i, c) ==
    /\ callers' = [j \in Callers |->
                      IF j = i THEN c
                      ELSE IF callers[j].pc = "sent" THEN [callers[j] EXCEPT !.req = c.req]
                      ELSE callers[j]]
    /\ UNCHANGED <<client, pc, call, req, rsp, body, ret, hook>>
    /\ UNCHANGED cliVars

\* The call of goroutine i becomes c: the locals of the method and of
\* Client.do, and the request and response they point to.
CallerSet(i, c) ==
    /\ callers' = [j \in Callers |-> IF j = i THEN c ELSE callers[j]]
    /\ UNCHANGED <<client, pc, call, req, rsp, body, ret, hook>>
    /\ UNCHANGED cliVars

\* Goroutine i calls op: the request is built and handed to the executor.
CallBy(i, op, a) ==
    /\ Running /\ callers[i].pc = "idle"
    /\ CallerSet(i, [NoCaller EXCEPT
                       !.pc = "sent",
                       !.call = [op |-> op, args |-> a],
                       !.req = [Header |-> authorize(client,
                                              addHeader(client,
                                                  NewRequestHeader(op, a.cancelToken))),
                                Query |-> NewRequestQuery(op, a)]])

\* The response r to the request of goroutine i is with Client.do: b holds
\* the bodies, rsp.Body is b[which], and out is what the method returns.
ReturnTo(i, r, b, which, out) ==
    CallerSet(i, [pc |-> "returned", call |-> callers[i].call, req |-> callers[i].req,
                  rsp |-> [nil |-> FALSE, StatusCode |-> r.StatusCode,
                           Header |-> r.Header, Body |-> which],
                  body |-> [k \in {"net", "dump"} |-> IF k = which THEN out.body ELSE b[k]],
                  ret |-> [val |-> out.val, hdr |-> out.hdr, err |-> out.err]])
OperateFor(i, r, b, which) ==
    ReturnTo(i, r, b, which, Endpoint(callers[i].call.op, r, b[which]))
RespondTo(i, r) ==
    /\ Running /\ callers[i].pc = "sent"
    /\ OperateFor(i, r,
                  IF client.debug
                  THEN DumpResponse([net |-> NewStream(r.Body), dump |-> NoStream])
                  ELSE [net |-> NewStream(r.Body), dump |-> NoStream],
                  IF client.debug THEN "dump" ELSE "net")

\* The executor fails for the request of goroutine i.
TransportFailFor(i) ==
    /\ Running /\ callers[i].pc = "sent"
    /\ CallerSet(i, IF client.debug
                    THEN [callers[i] EXCEPT !.pc = "panic"]
                    ELSE [callers[i] EXCEPT
                            !.pc = "returned",
                            !.ret = [val |-> ZeroResult(callers[i].call.op),
                                     hdr |-> NilHeader, err |-> TransportError]])

\* Goroutine i is done with the results.
DoneBy(i) ==
    /\ Running /\ callers[i].pc = "returned"
    /\ CallerSet(i, NoCaller)

ConcNext ==
    \/ \E i \in Callers : \E op \in ConcOps : \E a \in ConcArgs(op) : CallBy(i, op, a)
    \/ \E i \in Callers : \E r \in ConcResponses : RespondTo(i, r)
    \/ \E i \in Callers : TransportFailFor(i)
    \/ \E i \in Callers : DoneBy(i)

ConcSpec == Init /\ [][ConcNext]_vars

(***************************************************************************)
(* The lyft command: `ride create`, `ride cancel` and `ride status`.  A    *)
(* command runs from main to its exit; it stops at each request it sends   *)
(* (a method of Client, or threeleg.RefreshToken) until the server has     *)
(* answered.  impl tells the two texts of the ride commands apart: the one *)
(* of ride.go (and part_005), and the earlier one kept in lyft.go.         *)
(***************************************************************************)
Impls == {"ride.go", "lyft.go"}
Commands == {"cmdRideCreate", "cmdRideCancel", "rideStatus"}
\* Requests one run of a command may send.
MaxCalls == 4

\* The request each function sends, and again after a token refresh.
OpOf(fn) ==
    CASE fn = "cmdRideCreate" -> "RequestRide"
      [] fn = "cmdRideCancel" -> "CancelRide"
      [] fn = "rideStatus" -> "RideDetail"

\* os.Exit(0); log.Fatalf; the return from cmdRideCancel to main, which then
\* ends without a message; the wait on a channel nobody writes.
Exit(c, how) == [c EXCEPT !.at = "exit", !.exit = how]
\* The command goes on to send the request op.
Send(c, op, retry) == [c EXCEPT !.at = "call", !.op = op, !.retry = retry]

\* A function of the command that starts without looking at the dry-run
\* flag before its first request.
beginLateDryRun(fn, impl, f, end, inter) ==
    /\ client' = NewClient(inter.v.AccessToken)
    /\ cli' = [NoCommand EXCEPT
                  !.fn = fn, !.impl = impl, !.flags = f, !.inter = inter.v, !.end = end,
                  !.req = IF fn = "cmdRideCreate"
                          THEN NewRideRequest(StartLocation, end, "lyft")
                          ELSE NoRideRequest,
                  !.op = IF inter.err THEN "" ELSE OpOf(fn),
                  !.at = IF inter.err THEN "exit" ELSE "call",
                  !.exit = IF inter.err THEN "fatal" ELSE ""]

\* A function of the command starts: inter := getInternal(), the Client, the
\* ride request; `ride create` and `ride cancel` exit here on a dry run.
begin(fn, impl, f, end, inter) ==
    /\ client' = NewClient(inter.v.AccessToken)
    /\ cli' = [NoCommand EXCEPT
                  !.fn = fn, !.impl = impl, !.flags = f, !.inter = inter.v, !.end = end,
                  !.req = IF fn = "cmdRideCreate"
                          THEN NewRideRequest(StartLocation, end, "lyft")
                          ELSE NoRideRequest,
                  !.op = IF inter.err \/ (f.dryRun /\ fn # "rideStatus") THEN "" ELSE OpOf(fn),
                  !.at = IF inter.err \/ (f.dryRun /\ fn # "rideStatus") THEN "exit" ELSE "call",
                  !.exit = IF inter.err THEN "fatal"
                           ELSE IF f.dryRun /\ fn # "rideStatus" THEN "0" ELSE ""]
\* main: the flags are parsed and the command of the arguments is run, in a
\* new process.
Run(fn, impl, w, t, n, end) ==
    /\ cli.at = "idle"
    /\ begin(fn, impl, Flags(w, t, n), end, ensureInternal(internalFile))
    /\ UNCHANGED <<internalFile, sent, desktop>>
    /\ UNCHANGED libVars

\* The process of the command is gone (the user interrupts the one that
\* waits); the internal file stays.
Gone ==
    /\ cli.at = "exit"
    /\ cli' = NoCommand
    /\ sent' = <<>>
    /\ desktop' = <<>>
    /\ UNCHANGED <<client, internalFile>>
    /\ UNCHANGED libVars

\* The request as it leaves: the header Client.do gives it (threeleg sets
\* basic authentication instead) and the body.
RequestBody(c) ==
    CASE c.op = "RequestRide" -> EncodeRideRequest(c.req)
      [] c.op = "threeleg.RefreshToken" ->
            Obj(<<KV("grant_type", <<Str("refresh_token")>>),
                  KV("refresh_token", <<Str(c.inter.RefreshToken)>>)>>)
      [] OTHER -> <<>>
Request(c) ==
    [op |-> c.op,
     Header |-> IF c.op \in ClientOps
                THEN authorize(client, addHeader(client, NewRequestHeader(c.op, c.cancelToken)))
                ELSE NewRequestHeader(c.op, ""),
     cancelToken |-> IF c.op = "CancelRide" THEN c.cancelToken ELSE "",
     body |-> RequestBody(c),
     retry |-> c.retry]

\* The method returned out for the answer r: the error, and of the value the
\* fields the command reads (detail.RideStatus, refreshed.AccessToken).
returned(r, out) ==
    /\ sent' = Append(sent, [request |-> Request(cli), status |-> r.StatusCode,
                             err |-> out.err])
    /\ cli' = [cli EXCEPT
                  !.at = "returned",
                  !.err = out.err,
                  !.status = IF cli.op = "RideDetail" THEN out.val.RideStatus ELSE @,
                  !.token = IF cli.op = "threeleg.RefreshToken" THEN out.val.AccessToken ELSE @]
    /\ UNCHANGED <<client, internalFile, desktop>>
    /\ UNCHANGED libVars

\* The command sends the request it is at and the server answers r.
Roundtrip(r) ==
    /\ cli.at = "call"
    /\ Len(sent) < MaxCalls
    /\ returned(r, Endpoint(cli.op, r, NewStream(r.Body)))

\* refreshAndWriteToken(inter) from the return of threeleg.RefreshToken, and
\* the assignment of its result to the Client; the request is then sent again.
\* The file is written with json.Marshal(inter), inter being the argument.
refreshAndWriteToken ==
    /\ cli.at = "returned" /\ cli.op = "threeleg.RefreshToken"
    /\ IF cli.err # NoError
       THEN /\ cli' = Exit(cli, "fatal")
            /\ UNCHANGED <<client, internalFile>>
       ELSE /\ internalFile' = MarshalInternal(cli.inter)
            /\ client' = [client EXCEPT !.AccessToken = cli.token]
            /\ cli' = [Send(cli, OpOf(cli.fn),
                            ~(cli.fn = "cmdRideCancel" /\ cli.impl = "ride.go"))
                          EXCEPT !.expireRetry =
                              cli.fn = "cmdRideCancel" /\ cli.impl = "ride.go"]
    /\ UNCHANGED <<sent, desktop>>
    /\ UNCHANGED libVars

\* cmdRideCreate from the return of RequestRide (ride.go 66-82): one refresh
\* of an expired token and one more request, log.Fatalf on any error left,
\* then rideStatus under -w, which loads the Internal again.
cmdRideCreate ==
    /\ cli.fn = "cmdRideCreate" /\ cli.at = "returned" /\ cli.op = "RequestRide"
    /\ IF cli.err = NoError /\ cli.flags.watch
       THEN begin("rideStatus", cli.impl, cli.flags, cli.end, ensureInternal(internalFile))
       ELSE /\ cli' = IF cli.err = NoError THEN Exit(cli, "0")
                      ELSE IF ~cli.retry /\ IsTokenExpired(cli.err)
                      THEN Send(cli, "threeleg.RefreshToken", FALSE)
                      ELSE Exit(cli, "fatal")
            /\ UNCHANGED client
    /\ UNCHANGED <<internalFile, sent, desktop>>
    /\ UNCHANGED libVars

\* The step after a CancelRideError with the request sent again as it was.
confirmedKeepToken(c, input) ==
    IF parseYes(input)
    THEN [Send(c, "CancelRide", FALSE) EXCEPT !.input = input]
    ELSE [Exit(c, "0") EXCEPT !.input = input]

\* The step of cmdRideCancel after a CancelRideError: the user is asked, and
\* the request is sent again with the error's token unless the answer is no.
confirmed(c, input) ==
    IF parseYes(input)
    THEN [Send(c, "CancelRide", FALSE) EXCEPT !.input = input, !.cancelToken = c.err.Token]
    ELSE [Exit(c, "0") EXCEPT !.input = input]
\* cmdRideCancel of ride.go from the return of CancelRide (ride.go 101-125,
\* part_005 126-150), up to the next request or the end.
cmdRideCancel(input) ==
    /\ cli.fn = "cmdRideCancel" /\ cli.impl = "ride.go"
    /\ cli.at = "returned" /\ cli.op = "CancelRide"
    /\ cli' = IF cli.err = NoError THEN Exit(cli, "0")
              ELSE IF cli.err.type = "CancelRideError" THEN confirmed(cli, input)
              ELSE IF cli.expireRetry THEN Exit(cli, "fatal")
              ELSE IF IsTokenExpired(cli.err) THEN Send(cli, "threeleg.RefreshToken", FALSE)
              ELSE Exit(cli, "return")
    /\ UNCHANGED <<client, internalFile, sent, desktop>>
    /\ UNCHANGED libVars

\* cmdRideCancel of lyft.go (711-744), a for loop: from the return of the
\* CancelRide at its top, or of the one that follows the token refresh.
cmdRideCancelFor(input) ==
    /\ cli.fn = "cmdRideCancel" /\ cli.impl = "lyft.go"
    /\ cli.at = "returned" /\ cli.op = "CancelRide"
    /\ cli' = IF cli.err = NoError /\ ~cli.retry THEN Exit(cli, "0")
              ELSE IF cli.err.type = "CancelRideError" THEN confirmed(cli, input)
              ELSE IF ~cli.retry /\ IsTokenExpired(cli.err)
              THEN Send(cli, "threeleg.RefreshToken", FALSE)
              ELSE Exit(cli, "fatal")
    /\ UNCHANGED <<client, internalFile, sent, desktop>>
    /\ UNCHANGED libVars

\* notifyOnce(r, ...): the desktop after it.
notifyEveryTime(notified, r, d) == Append(d, r)
notifyOnce(notified, r, d) == IF r \in notified THEN d ELSE Append(d, r)

\* The statuses rideStatus notifies of, and those it keeps polling at.
Notified == {StatusCanceled, StatusAccepted, StatusArrived}
Polled == {StatusPending, StatusAccepted}

\* A failed RideDetail answered with a refresh whenever the token has
\* expired, the request after a refresh included.
detailFailedAgain(c) ==
    IF IsTokenExpired(c.err)
    THEN Send(c, "threeleg.RefreshToken", FALSE)
    ELSE Exit(c, "fatal")

\* A failed RideDetail in either text: one refresh of an expired token and
\* one more request, then log.Fatalf.
detailFailed(c) ==
    IF ~c.retry /\ IsTokenExpired(c.err)
    THEN Send(c, "threeleg.RefreshToken", FALSE)
    ELSE Exit(c, "fatal")

\* rideStatus of ride.go from the return of RideDetail (ride.go 162-257,
\* part_005 187-282): the status is printed, notified once, and under -w the
\* loop goes on while the ride is pending or accepted.
rideStatus ==
    /\ cli.fn = "rideStatus" /\ cli.impl = "ride.go"
    /\ cli.at = "returned" /\ cli.op = "RideDetail"
    /\ IF cli.err # NoError
       THEN cli' = detailFailed(cli) /\ UNCHANGED desktop
       ELSE /\ desktop' = IF cli.flags.notifications /\ cli.status \in Notified
                          THEN notifyOnce(cli.notified, cli.status, desktop)
                          ELSE desktop
            /\ cli' = [(IF cli.flags.watch /\ cli.status \in Polled
                        THEN Send(cli, "RideDetail", FALSE)
                        ELSE Exit(cli, IF cli.flags.watch THEN "wait" ELSE "0"))
                       EXCEPT !.printed = @ + 1,
                              !.notified = IF cli.flags.notifications /\ cli.status \in Notified
                                           THEN @ \cup {cli.status} ELSE @]
    /\ UNCHANGED <<client, internalFile, sent>>
    /\ UNCHANGED libVars

\* cmdRideStatus of lyft.go (776-894): arrived is notified at every round,
\* and under -w the `break` of the last case leaves the switch, not the loop.
cmdRideStatus ==
    /\ cli.fn = "rideStatus" /\ cli.impl = "lyft.go"
    /\ cli.at = "returned" /\ cli.op = "RideDetail"
    /\ IF cli.err # NoError
       THEN cli' = detailFailed(cli) /\ UNCHANGED desktop
       ELSE /\ desktop' = IF cli.flags.notifications /\ cli.status \in Notified
                          THEN notifyOnce(IF cli.status = StatusArrived THEN {} ELSE cli.notified,
                                          cli.status, desktop)
                          ELSE desktop
            /\ cli' = [(IF cli.flags.watch
                        THEN Send(cli, "RideDetail", FALSE)
                        ELSE Exit(cli, "0"))
                       EXCEPT !.printed = @ + 1,
                              !.notified = IF cli.flags.notifications /\ cli.status \in Notified
                                           THEN @ \cup {cli.status} ELSE @]
    /\ UNCHANGED <<client, internalFile, sent>>
    /\ UNCHANGED libVars

CliNext ==
    \/ \E fn \in Commands : \E impl \in Impls : \E w, t, n \in BOOLEAN :
          \E end \in (IF fn = "cmdRideCreate" THEN EndLocations ELSE {NoLocation}) :
              Run(fn, impl, w, t, n, end)
    \/ \E r \in Answers(cli.op) : Roundtrip(r)
    \/ refreshAndWriteToken
    \/ cmdRideCreate
    \/ \E input \in Inputs : cmdRideCancel(input)
    \/ \E input \in Inputs : cmdRideCancelFor(input)
    \/ rideStatus
    \/ cmdRideStatus
    \/ Gone

CliSpec == Init /\ [][CliNext]_vars

(***************************************************************************)
(* A caller that looks into the error it was returned                      *)
(***************************************************************************)
\* The caller reads the ResponseBody of the *StatusError to its end, as in
\* io.Copy(os.Stderr, &se.ResponseBody): the buffer's read offset moves.
ReadResponseBody ==
    /\ pc = "returned" /\ ret.err.type = "StatusError"
    /\ BufferBytes(ret.err.ResponseBody) # <<>>
    /\ ret' = [ret EXCEPT !.err.ResponseBody = BufferDrained(@)]
    /\ UNCHANGED <<client, pc, call, req, rsp, body, hook, callers>>
    /\ UNCHANGED cliVars

InspectNext == Next \/ ReadResponseBody

InspectSpec == Init /\ [][InspectNext]_vars

(***************************************************************************)
(* Properties                                                              *)
(***************************************************************************)
\* A call has returned after a response was obtained.
Answered == pc = "returned" /\ ~rsp.nil
\* The bytes the server sent as the response body.
Data == body.net.data
SpecialErrors == {"RideRequestError", "CancelRideError"}
\* The success status of each operation (spec section 4.4, the table).
SuccessCode(op) ==
    IF op = "RequestRide" THEN 201 ELSE IF op = "CancelRide" THEN 204 ELSE 200
\* The status is neither the operation's success status nor one it answers
\* with a specialized error.
GenericStatus(op, status) ==
    /\ status # SuccessCode(op)
    /\ ~(status = 400 /\ op \in {"RequestRide", "CancelRide"})
\* The string member `key` of the JSON object b, if b is one and has it.
HasString(b, key) ==
    /\ Valid(b) /\ b[1].t = "{"
    /\ \E j \in 1..Len(Members(b, 1)) :
          Members(b, 1)[j].k = key /\ b[Members(b, 1)[j].at].t = "str"
StringOf(b, key) ==
    LET ms == Members(b, 1)
        j == CHOOSE j \in 1..Len(ms) : ms[j].k = key /\ b[ms[j].at].t = "str"
    IN  b[ms[j].at].s
\* The values of the response's `error` header, whatever the spelling of the
\* key in rsp.Header.
ErrorHeader(h) == IF h["error"] # <<>> THEN h["error"] ELSE h["Error"]

\* C1: RequestRide returns a nil error only for status 201 with a body that
\* decodes, a *RideRequestError for status 400 and a *StatusError for every
\* other status; CancelRide returns a nil error only for status 204, a
\* *CancelRideError for status 400 and a *StatusError for every other status.
C1_StatusSwitch ==
    Answered =>
        /\ call.op = "RequestRide" =>
              /\ ret.err.type = "nil" =>
                    rsp.StatusCode = 201 /\ ~JSONUnmarshal(Data, "CreatedRide").err
              /\ rsp.StatusCode = 400 => ret.err.type = "RideRequestError"
              /\ rsp.StatusCode \notin {201, 400} =>
                    ret.err.type = "StatusError" /\ ret.err.StatusCode = rsp.StatusCode
        /\ call.op = "CancelRide" =>
              /\ ret.err.type = "nil" <=> rsp.StatusCode = 204
              /\ rsp.StatusCode = 400 => ret.err.type = "CancelRideError"
              /\ rsp.StatusCode \notin {204, 400} =>
                    ret.err.type = "StatusError" /\ ret.err.StatusCode = rsp.StatusCode
C1_Witness ==
    /\ Answered /\ call.op = "RequestRide" /\ rsp.StatusCode = 200
    /\ Data = CreatedRideBody /\ ret.err.type = "StatusError"

\* C2: NewStatusError is total: whatever the body and the header, the result
\* is a StatusError with the response's status code, never the decode error;
\* its Reason is empty when the body is no JSON and there is no error header.
C2_StatusErrorTotal ==
    Answered /\ GenericStatus(call.op, rsp.StatusCode) =>
        /\ ret.err.type = "StatusError"
        /\ ret.err.StatusCode = rsp.StatusCode
        /\ (~Valid(Data) /\ ErrorHeader(rsp.Header) = <<>>) => ret.err.ErrorInfo.Reason = ""
C2_Witness ==
    /\ Answered /\ ret.err.type = "StatusError" /\ Data = <<JUNK>>
    /\ ErrorHeader(rsp.Header) = <<>> /\ ret.err.ErrorInfo.Reason = ""

\* C3: when the response carries an `error` header, the Reason of the error
\* info is that header's first value, whatever the body; the body's `error`
\* field is used only when the header is absent.
C3_HeaderReason ==
    Answered /\ ret.err.type \in SpecialErrors \cup {"StatusError"} =>
        LET hv == ErrorHeader(rsp.Header)
            decoded == JSONUnmarshal(Data, "lyftError")
        IN  ret.err.ErrorInfo.Reason =
                IF hv # <<>> THEN hv[1]
                ELSE IF decoded.err THEN "" ELSE decoded.v.Slug

\* C4: the ResponseBody of a StatusError holds exactly the bytes of the
\* response body, whether or not they decoded as error info.
C4_ResponseBodyRoundTrip ==
    Answered /\ ret.err.type = "StatusError" =>
        BufferBytes(ret.err.ResponseBody) = Data
C4_Witness ==
    /\ Answered /\ ret.err.type = "StatusError"
    /\ ret.err.ErrorInfo.Description = "bad token"
    /\ rsp.Header = EmptyHeader
    /\ BufferBytes(ret.err.ResponseBody) = Data

\* C5: a RequestRide response with status 400 whose body is a JSON object
\* with a cost_token (with or without a token_duration) yields a
\* RideRequestError whose Cost is present and carries that token; for
\* {"error":"confirmation_required","cost_token":"abc"} the Reason is
\* "confirmation_required" and Cost.CostToken is "abc".
C5_CostToken ==
    (Answered /\ call.op = "RequestRide" /\ rsp.StatusCode = 400
        /\ HasString(Data, "cost_token")) =>
            /\ ~ret.err.Cost.nil
            /\ ret.err.Cost.v.CostToken = StringOf(Data, "cost_token")

\* C6: a CancelRide response with status 400 and a fee body yields a
\* CancelRideError whose Amount, Currency and Token are the wire values and
\* whose TokenDuration is token_duration seconds (amount 5.0, "USD",
\* "tok123", 300 give 5.0, "USD", "tok123", 300 s).
C6_CancelFee ==
    \A f \in CancelFees :
        (Answered /\ call.op = "CancelRide" /\ rsp.StatusCode = 400
            /\ Data \in {FeeBody(f), FeeBodyWithError(f)}) =>
                /\ ret.err.type = "CancelRideError"
                /\ ret.err.Amount = f.whole * 10 + f.tenth
                /\ ret.err.Currency = f.currency
                /\ ret.err.Token = f.token
                /\ ret.err.TokenDuration = [sec |-> f.seconds, nsec |-> 0]
C6_Witness ==
    /\ Answered /\ call.op = "CancelRide" /\ rsp.StatusCode = 400
    /\ Data = FeeBody([whole |-> 5, tenth |-> 0, currency |-> "USD",
                       token |-> "tok123", seconds |-> 300])
    /\ ret.err.type = "CancelRideError" /\ ret.err.TokenDuration.sec = 300

\* The error info the whole body and the header give.
ExpectedErrorInfo(h, b) ==
    LET d == JSONUnmarshal(b, "lyftError") IN
    [Reason |-> IF h["error"] # <<>> THEN h["error"][1] ELSE IF d.err THEN "" ELSE d.v.Slug,
     Details |-> IF d.err THEN <<>> ELSE d.v.Details,
     Description |-> IF d.err THEN "" ELSE d.v.Description]

\* C7: for status 400 on RequestRide and CancelRide the specialized error is
\* returned whatever the body; its error info is the one the complete body
\* and the header give; when the body is malformed, empty or without the
\* supplementary payload, Cost is nil and the fee fields are zero; and when
\* the body holds both, both decodes find their part.
C7_SupplementaryDecode ==
    (Answered /\ rsp.StatusCode = 400 /\ call.op \in {"RequestRide", "CancelRide"}) =>
        /\ ret.err.type = (IF call.op = "RequestRide" THEN "RideRequestError"
                           ELSE "CancelRideError")
        /\ ret.err.ErrorInfo = ExpectedErrorInfo(rsp.Header, Data)
        /\ (call.op = "RequestRide" /\ Data \in ErrorBodies) => ret.err.Cost.nil
        /\ (call.op = "CancelRide" /\ Data \in ErrorBodies) =>
              /\ ret.err.Amount = 0 /\ ret.err.Currency = "" /\ ret.err.Token = ""
              /\ ret.err.TokenDuration = ZeroDuration
        /\ (call.op = "RequestRide" /\ HasString(Data, "cost_token")
                /\ HasString(Data, "token_duration")
                /\ ~ParseInt(StringOf(Data, "token_duration")).err) =>
              /\ ~ret.err.Cost.nil
              /\ ret.err.Cost.v.CostToken = StringOf(Data, "cost_token")
        /\ \A f \in CancelFees :
              (call.op = "CancelRide" /\ Data = FeeBodyWithError(f)) =>
                  ret.err.Token = f.token /\ ret.err.ErrorInfo.Description = "fee applies"
C7_Witness ==
    /\ Answered /\ call.op = "RequestRide" /\ rsp.StatusCode = 400 /\ Data = <<>>
    /\ ret.err.type = "RideRequestError" /\ ret.err.Cost.nil

\* The reason the response was classified with.
ReasonOf(err) ==
    IF err.type \in SpecialErrors \cup {"StatusError"} THEN err.ErrorInfo.Reason ELSE ""

\* C8: for the error of any endpoint operation, IsTokenExpired is true when
\* the response had status 401 and an empty body, and when its reason is
\* token_expired, whatever the status code.
C8_TokenExpired ==
    (Answered /\ ret.err.type # "nil") =>
        /\ (rsp.StatusCode = 401 /\ Data = <<>>) => IsTokenExpired(ret.err)
        /\ ReasonOf(ret.err) = TokenExpired => IsTokenExpired(ret.err)

\* The operations whose success response has a body to decode.
DecodingOps == {op \in Ops : WellFormed(op) # {}}

\* C9 as stated: every 2xx response with a well-formed body is decoded and
\* returned with a nil error.
C9_Any2xxDecodes ==
    (Answered /\ call.op \in DecodingOps /\ rsp.StatusCode \in 200..299
        /\ Data \in WellFormed(call.op)) => ret.err.type = "nil"

\* C9, amended: a response with the operation's success status (200, 201 for
\* RequestRide) and a well-formed body is decoded and returned with a nil
\* error.
C9_SuccessStatusDecodes ==
    (Answered /\ call.op \in DecodingOps /\ rsp.StatusCode = SuccessCode(call.op)
        /\ Data \in WellFormed(call.op)) => ret.err.type = "nil"
C9_Witness ==
    /\ Answered /\ call.op = "RideHistory" /\ rsp.StatusCode = 200
    /\ Data = Obj(<<KV("ride_history", Arr(Repeat(RideDetailBody(""), MaxElems)))>>)
    /\ ret.err.type = "nil" /\ Len(ret.val) = MaxElems

C11_TransportErrorReturned ==
    /\ pc # "panic"
    /\ (pc = "returned" /\ rsp.nil /\ req # NoRequest) =>
          ret.err = TransportError /\ ret.hdr.nil

\* C12: the header an operation returns is the response's header whenever a
\* response was obtained, a decode failure of a success body included, and
\* it is nil exactly when no response was obtained.
C12_HeaderReturned ==
    pc = "returned" =>
        /\ ret.hdr.nil <=> rsp.nil
        /\ ~rsp.nil => ret.hdr.h = rsp.Header
C12_Witness ==
    /\ Answered /\ ret.err.type = "decode"
    /\ ~ret.hdr.nil /\ ret.hdr.h = rsp.Header /\ rsp.Header["error"] # <<>>

\* C13: the request Client.do sends has `Bearer <AccessToken>` as the value
\* of Authorization a server reads (the first one), also when the client's
\* extra Header has an Authorization entry, and every value of the extra
\* Header is on the request after the values the request already had.
C13_RequestAuthorized ==
    (pc = "sent" /\ call.op \in ClientOps) =>
        /\ req.Header["Authorization"][1] = "Bearer " \o client.AccessToken
        /\ \A k \in HeaderKeys :
              /\ \A j \in 1..Len(client.Header[k]) :
                    \E l \in 1..Len(req.Header[k]) : req.Header[k][l] = client.Header[k][j]
              /\ \A j \in 1..Len(NewRequestHeader(call.op, call.args.cancelToken)[k]) :
                    req.Header[k][j] = NewRequestHeader(call.op, call.args.cancelToken)[k][j]

\* C14: DecodeEvent verifies the signature against the bytes it read from the
\* body and decodes them only if the verification succeeded.  When the
\* verification fails the error is exactly ErrVerify and no Event is decoded,
\* also when the body is malformed; a decode error is returned only after a
\* successful verification.  On every outcome the body has been read to its
\* end (or to its read error) and closed once.
C14_VerifyThenDecode ==
    pc = "decoded" =>
        /\ hook.out.body.closed = 1
        /\ hook.out.body.eof \/ hook.out.body.failed
        /\ hook.out.body.failed => hook.out.err = ReadError /\ hook.out.e = ZeroEvent
        /\ ~hook.out.body.failed =>
              /\ hook.out.ok = Verify(hook.out.body.data, Signature(hook.h), hook.token).ok
              /\ ~hook.out.ok => hook.out.err = ErrVerify /\ hook.out.e = ZeroEvent
              /\ hook.out.ok =>
                    hook.out.err = IF JSONUnmarshal(hook.out.body.data, "Event").err
                                   THEN DecodeError ELSE NoError
C14_Witness ==
    /\ pc = "decoded" /\ hook.out.err = ErrVerify /\ hook.out.e = ZeroEvent
    /\ hook.out.body.data = <<JUNK>> /\ hook.h # <<>>
    /\ hook.out.body.closed = 1 /\ hook.out.body.eof

WireEvent == JSONUnmarshal(hook.out.body.data, "event").v
IsRFC3339(s) == s \in {"2017-11-05T10:00:00Z", "2017-11-05T10:00:00+05:30"}
ExpectedTime(s) ==
    IF s = "" THEN ZeroTime
    ELSE [Y |-> 2017, M |-> 11, D |-> 5, h |-> 10, m |-> 0, s |-> 0,
          off |-> IF s = "2017-11-05T10:00:00Z" THEN 0 ELSE 330]
\* wire: the timestamps as written; got: the times decoded from them.
TimestampsDecoded(wire, err, got) ==
    IF \A j \in 1..Len(wire) : wire[j] = "" \/ IsRFC3339(wire[j])
    THEN err = NoError /\ \A j \in 1..Len(wire) : got[j] = ExpectedTime(wire[j])
    ELSE err = DecodeError
RideDetailTimes(d) ==
    <<d.Origin.Time, d.Pickup.Time, d.Destination.Time, d.Dropoff.Time, d.Requested>>
C17_TimestampsDecoded ==
    /\ (Answered /\ call.op = "RideDetail" /\ rsp.StatusCode = 200
          /\ ~JSONUnmarshal(Data, "rideDetail").err) =>
            TimestampsDecoded(RideDetailTimes(JSONUnmarshal(Data, "rideDetail").v),
                              ret.err, RideDetailTimes(ret.val))
    /\ (Answered /\ call.op = "RideReceipt" /\ rsp.StatusCode = 200
          /\ ~JSONUnmarshal(Data, "rideReceipt").err) =>
            TimestampsDecoded(<<JSONUnmarshal(Data, "rideReceipt").v.Requested>>,
                              ret.err, <<ret.val.Requested>>)
    /\ (pc = "decoded" /\ hook.out.ok /\ hook.late
          /\ ~JSONUnmarshal(hook.out.body.data, "event").err) =>
            TimestampsDecoded(<<WireEvent.Occurred>>, hook.out.err,
                              <<hook.out.e.Occurred>>)
C17_Witness ==
    /\ Answered /\ call.op = "RideDetail" /\ rsp.StatusCode = 200
    /\ Data = RideDetailBody("2017-11-05T10:00:00+05:30")
    /\ ret.err = NoError /\ ret.val.Origin.Time = ZeroTime
    /\ ret.val.Pickup.Time = ExpectedTime("2017-11-05T10:00:00+05:30")
    /\ ret.val.Requested.off = 330

\* C18: every decoder of a seconds-valued field yields that many seconds:
\* estimated_duration_seconds 120, eta_seconds 120 (of an estimate and of a
\* ride's origin), token_duration 60 (of a ride's cancellation price) and
\* expires_in 3600 give 120 s, 120 s, 60 s and 3600 s; the cost token's
\* token_duration "60" gives 60 s, and one that is "soon", a JSON number or
\* absent (the empty string) fails the CostTokenInfo decode, leaving no Cost.
SecondsOf(n) == [sec |-> n, nsec |-> 0]
C18_SecondsDecoded ==
    /\ (Answered /\ rsp.StatusCode = SuccessCode(call.op)
          /\ Data \in WellFormed(call.op)) =>
          /\ ret.err = NoError
          /\ call.op = "CostEstimates" =>
                \A j \in 1..Len(ret.val) : ret.val[j].Duration = SecondsOf(120)
          /\ call.op = "DriverETA" =>
                \A j \in 1..Len(ret.val) : ret.val[j].ETA = SecondsOf(120)
          /\ (call.op = "RideDetail" /\ \E ts \in GoodTimestamps : Data = RideDetailBody(ts)) =>
                /\ ret.val.Origin.ETA = SecondsOf(120)
                /\ ret.val.CancellationPrice.TokenDuration = SecondsOf(60)
          /\ call.op \in AuthOps \ {"threeleg.RevokeToken"} =>
                ret.val.Expires = SecondsOf(3600)
    /\ (Answered /\ call.op = "RequestRide" /\ rsp.StatusCode = 400
          /\ Data \in RideRequestBodies) =>
            IF HasString(Data, "token_duration") /\ StringOf(Data, "token_duration") = "60"
            THEN ~ret.err.Cost.nil /\ ret.err.Cost.v.TokenDuration = SecondsOf(60)
            ELSE ret.err.Cost.nil
C18_Witness ==
    /\ Answered /\ call.op = "CostEstimates" /\ rsp.StatusCode = 200
    /\ Data \in WellFormed("CostEstimates")
    /\ Len(ret.val) = MaxElems /\ ret.val[1].Duration = SecondsOf(120)

\* C19: the request of RideTypes, CostEstimates and DriverETA has the query
\* parameter ride_type equal to the rideType argument when that is not empty
\* and no ride_type when it is; CostEstimates and DriverETA send the end
\* latitude and the end longitude exactly when the argument is not IgnoreArg.
C19_QueryParameters ==
    (pc = "sent" /\ call.op \in {"RideTypes", "CostEstimates", "DriverETA"}) =>
        /\ req.Query["ride_type"] =
              IF call.args.rideType # "" THEN <<call.args.rideType>> ELSE <<>>
        /\ call.op = "CostEstimates" =>
              /\ req.Query["end_lat"] # <<>> <=> call.args.endLat # IgnoreArg
              /\ req.Query["end_lng"] # <<>> <=> call.args.endLng # IgnoreArg
        /\ call.op = "DriverETA" =>
              /\ req.Query["destination_lat"] # <<>> <=> call.args.endLat # IgnoreArg
              /\ req.Query["destination_lng"] # <<>> <=> call.args.endLng # IgnoreArg

\* C20: with several goroutines calling the one Client, in every interleaving
\* each call's request carries that call's own parameters and the client's
\* headers and token, each call returns the result of its own response
\* (its status, its body, or the executor's error), and no step of a call
\* changes the Client.
OwnRequest(c) ==
    /\ c.req.Query["ride_type"] =
          IF c.call.op = "RideTypes" THEN <<c.call.args.rideType>> ELSE <<>>
    /\ c.req.Header["Content-Type"] =
          IF c.call.op = "CancelRide" THEN <<"application/json">> ELSE <<>>
    /\ c.req.Header["Authorization"] =
          client.Header["Authorization"] \o <<"Bearer " \o client.AccessToken>>
    /\ c.req.Header["X-Trace"] = client.Header["X-Trace"]
OwnResult(c) ==
    IF c.rsp.nil THEN c.ret.err = TransportError /\ c.ret.hdr.nil
    ELSE /\ ~c.ret.hdr.nil /\ c.ret.hdr.h = c.rsp.Header
         /\ c.body.net.eof /\ c.body.net.closed = 1
         /\ IF c.rsp.StatusCode # SuccessCode(c.call.op)
            THEN /\ c.ret.err.type = "StatusError"
                 /\ c.ret.err.StatusCode = c.rsp.StatusCode
                 /\ BufferBytes(c.ret.err.ResponseBody) = c.body.net.data
            ELSE IF c.call.op = "CancelRide" THEN c.ret.err = NoError
            ELSE IF c.body.net.data = <<>> THEN c.ret.err = DecodeError
            ELSE c.ret.err = NoError /\ Len(c.ret.val) = 1
CallsIsolated ==
    \A i \in Callers :
        /\ callers[i].pc # "idle" => OwnRequest(callers[i])
        /\ callers[i].pc = "returned" => OwnResult(callers[i])
C20_ConcurrentCalls == []CallsIsolated /\ [][client' = client]_vars
C20_Witness ==
    /\ callers[1].pc = "returned" /\ callers[1].call.op = "RideTypes"
    /\ callers[1].ret.err = NoError /\ Len(callers[1].ret.val) = 1
    /\ callers[2].pc = "sent" /\ callers[2].call.op = "CancelRide"
    /\ client.Header["X-Trace"] # <<>>

(***************************************************************************)
(* Properties of the lyft command                                          *)
(***************************************************************************)
\* The requests of the run that carry the operation op.
Sent(op) == {i \in 1..Len(sent) : sent[i].request.op = op}

\* C21: with the dry-run flag set, `ride create` and `ride cancel` send no
\* RequestRide and no CancelRide: the command has exited with nothing sent.
C21_DryRunSendsNothing ==
    cli.flags.dryRun /\ cli.fn \in {"cmdRideCreate", "cmdRideCancel"} =>
        /\ Sent("RequestRide") \cup Sent("CancelRide") = {}
        /\ cli.at = "exit"
        /\ sent = <<>>
\* A dry run of `ride create` has exited with status 0.
C21_Witness ==
    /\ cli.flags.dryRun /\ cli.fn = "cmdRideCreate"
    /\ cli.at = "exit" /\ cli.exit = "0"
    /\ ~cli.req.Destination = Zero("Location")

\* The CancelRideErrors returned before request i of the run.
FeesBefore(i) == {j \in 1..(i - 1) : sent[j].err.type = "CancelRideError"}
\* The cancel token request i has to carry: none before the first
\* CancelRideError, then the Token of the latest one.
TokenDue(i) == IF FeesBefore(i) = {} THEN "" ELSE sent[MaxOf(FeesBefore(i))].err.Token
CancelTokensDue == \A i \in Sent("CancelRide") : sent[i].request.cancelToken = TokenDue(i)
\* After the answer no the command is over, the refused fee being the last
\* thing the server said.
DeclinedIsFinal ==
    cli.fn = "cmdRideCancel" /\ ~parseYes(cli.input) =>
        /\ cli.at = "exit" /\ cli.exit = "0"
        /\ sent[Len(sent)].err.type = "CancelRideError"
\* The command takes a cancel token only from the CancelRideError it has just
\* got, and on the answer yes.
TokenTaken ==
    cli'.cancelToken \notin {cli.cancelToken, ""} =>
        /\ cli.at = "returned" /\ cli.err.type = "CancelRideError"
        /\ cli'.cancelToken = cli.err.Token
        /\ parseYes(cli'.input)
        /\ cli'.at = "call" /\ cli'.op = "CancelRide"

\* C22: in cmdRideCancel the first CancelRide carries no cancel token; a token
\* is sent only after a CancelRideError and the answer yes, and it is the
\* Token of the most recent CancelRideError; after the answer no nothing more
\* is sent and the command exits with status 0.
C22_CancelTokenFlow ==
    /\ [](CancelTokensDue /\ DeclinedIsFinal)
    /\ [][TokenTaken]_vars
\* Two fees were confirmed one after the other, and the third request carries
\* the token of the second.
C22_Witness ==
    /\ cli.fn = "cmdRideCancel" /\ Len(sent) = 3
    /\ sent[1].err.type = "CancelRideError" /\ sent[2].err.type = "CancelRideError"
    /\ sent[1].err.Token # sent[2].err.Token
    /\ sent[3].request.cancelToken = sent[2].err.Token

\* C23: the confirmation flow of cmdRideCancel is bounded: whatever the server
\* answers and the user confirms, one run sends at most three CancelRide (the
\* first, one after the confirmation, one after a token refresh).
C23_CancelBounded ==
    cli.fn = "cmdRideCancel" => Cardinality(Sent("CancelRide")) <= 3

\* The token refreshes of the run.
Refreshes == Sent("threeleg.RefreshToken")
\* Request i + 1 is request i - 1 once more, under the token the refresh i
\* returned.
RetryOf(i) ==
    /\ sent[i + 1].request.op = sent[i - 1].request.op
    /\ sent[i + 1].request.cancelToken = sent[i - 1].request.cancelToken
    /\ sent[i + 1].request.body = sent[i - 1].request.body
    /\ sent[i + 1].request.Header["Authorization"] = <<"Bearer at2">>
\* The refresh i came after a request that failed with an expired token; when
\* it succeeded the same request follows (or is about to be sent), and when
\* that one fails other than by asking for a confirmation the command is
\* over with a failure.
RefreshedOnce(i) ==
    /\ i > 1
    /\ sent[i - 1].request.op # "threeleg.RefreshToken"
    /\ IsTokenExpired(sent[i - 1].err)
    /\ i = Len(sent) =>
          \/ cli.at = "returned" /\ cli.op = "threeleg.RefreshToken"
          \/ cli.at = "exit" /\ cli.exit = "fatal" /\ sent[i].err # NoError
          \/ cli.at = "call" /\ cli.op = sent[i - 1].request.op /\ sent[i].err = NoError
    /\ i < Len(sent) => sent[i].err = NoError /\ RetryOf(i)
    /\ i < Len(sent) /\ sent[i + 1].err.type \notin {"nil", "CancelRideError"} =>
          /\ i + 1 = Len(sent)
          /\ cli.at = "returned" \/ (cli.at = "exit" /\ cli.exit = "fatal")

\* C24: in cmdRideCreate, cmdRideCancel and each RideDetail fetch of rideStatus
\* (ride.go) the token is refreshed only after a token-expired error, the
\* refresh is followed by one retry of the same request, an error of the retry
\* ends the command with a failure, and cmdRideCancel refreshes at most once.
C24_RefreshOnce ==
    /\ \A i \in Refreshes : RefreshedOnce(i)
    /\ cli.fn = "cmdRideCancel" /\ cli.impl = "ride.go" => Cardinality(Refreshes) <= 1
    /\ Cardinality({i \in Refreshes : sent[i - 1].request.op = "RequestRide"}) <= 1
\* A RideDetail failed for an expired token, the token was refreshed, the
\* retry failed the same way and the command has ended with log.Fatalf.
C24_Witness ==
    /\ cli.fn = "rideStatus" /\ cli.at = "exit" /\ cli.exit = "fatal"
    /\ Len(sent) = 4
    /\ sent[1].err = NoError
    /\ IsTokenExpired(sent[2].err)
    /\ sent[3].request.op = "threeleg.RefreshToken" /\ sent[3].err = NoError
    /\ IsTokenExpired(sent[4].err)

\* The run of cmdRideCancel is over and its last request was a CancelRide.
CancelOver ==
    /\ cli.fn = "cmdRideCancel" /\ cli.at = "exit"
    /\ Len(sent) > 0 /\ sent[Len(sent)].request.op = "CancelRide"
LastError == sent[Len(sent)].err
\* A success only after a CancelRide that returned nil, or the answer no.
SuccessEarned ==
    CancelOver /\ cli.exit = "0" => LastError = NoError \/ ~parseYes(cli.input)
\* A CancelRide that returned nil ends the command with status 0.
CanceledIsSuccess == CancelOver /\ LastError = NoError => cli.exit = "0"
\* An error that is no CancelRideError and no expired token is reported, and
\* the command never comes back to main after a failed cancellation.
FailureReported ==
    CancelOver /\ LastError.type \notin {"nil", "CancelRideError"} => cli.exit = "fatal"

\* C25: in each text of cmdRideCancel the outcome matches the last CancelRide:
\* status 0 only after a nil error or the answer no, status 0 whenever the
\* CancelRide after a token refresh returns nil, and a report of the failure
\* (never a silent return) when the last error is any other error.
C25_OutcomeMatches == SuccessEarned /\ CanceledIsSuccess /\ FailureReported

\* rideStatus has printed the status of its latest RideDetail, which is the
\* last thing on the wire, and has gone on from there.
StatusShown ==
    /\ cli.fn = "rideStatus" /\ cli.printed > 0 /\ cli.at # "returned"
    /\ sent[Len(sent)].request.op = "RideDetail" /\ sent[Len(sent)].err = NoError
\* Under -w the next RideDetail follows a pending or accepted ride and nothing
\* follows any other status; without -w one status is printed and that is all.
PollsWhileActive ==
    StatusShown =>
        IF cli.flags.watch /\ cli.status \in Polled
        THEN cli.at = "call" /\ cli.op = "RideDetail"
        ELSE /\ cli.at = "exit"
             /\ cli.exit = IF cli.flags.watch THEN "wait" ELSE "0"
             /\ ~cli.flags.watch => cli.printed = 1

\* C26: in watch mode the status command keeps polling RideDetail while the
\* ride is pending or accepted and stops at the first other status (arrived,
\* pickedUp, droppedOff, canceled, unknown); without watch mode exactly one
\* status is fetched and printed.
C26_WatchPolling == PollsWhileActive
\* The same for the text of ride.go alone.
PollsWhileActiveRideGo == cli.impl = "ride.go" => PollsWhileActive

\* C27: one run of rideStatus sends at most one desktop notification per
\* ride status, and only for canceled, accepted and arrived; with
\* notifications off it sends none; the flag -t always brings -w with it.
C27_NotifyOnce ==
    /\ cli.impl = "ride.go" =>
          \A i, j \in 1..Len(desktop) : desktop[i] = desktop[j] => i = j
    /\ \A i \in 1..Len(desktop) : desktop[i] \in Notified
    /\ ~cli.flags.notifications => desktop = <<>>
    /\ cli.flags.notifications => cli.flags.watch
\* rideStatus has seen the ride accepted twice and then arrived, and has sent
\* one notification for each of the two statuses.
C27_Witness ==
    /\ cli.fn = "rideStatus" /\ cli.impl = "ride.go" /\ cli.flags.notifications
    /\ cli.printed = 3 /\ cli.status = StatusArrived
    /\ desktop = <<StatusAccepted, StatusArrived>>
\* Without -w the status command prints one status and exits, in both texts.
OneStatusWithoutWatch ==
    StatusShown /\ ~cli.flags.watch => cli.at = "exit" /\ cli.exit = "0" /\ cli.printed = 1

\* The step in which refreshAndWriteToken returns the refreshed token.
RefreshSucceeded ==
    /\ cli.at = "returned" /\ cli.op = "threeleg.RefreshToken" /\ cli.err = NoError
    /\ cli'.at = "call"
\* The Internal a later command loads from the file the step leaves.
StoredAfter == ensureInternal(internalFile').v
\* The token is returned (the caller gives it to its Client), and the client
\* id, client secret and refresh token in the file are those of before.
RefreshedTokenReturned ==
    RefreshSucceeded =>
        /\ client'.AccessToken = cli.token
        /\ StoredAfter.ClientID = cli.inter.ClientID
        /\ StoredAfter.ClientSecret = cli.inter.ClientSecret
        /\ StoredAfter.RefreshToken = cli.inter.RefreshToken
\* The access token in the file is the refreshed one.
RefreshedTokenWritten == RefreshSucceeded => StoredAfter.AccessToken = cli.token

\* C28: after refreshAndWriteToken succeeds the internal file holds the
\* refreshed access token, with the client id, client secret and refresh token
\* unchanged, so that a later command starts with it; the value returned is
\* the refreshed access token.
C28_RefreshedTokenStored == [][RefreshedTokenReturned /\ RefreshedTokenWritten]_vars
\* The part about the value returned and the fields left alone.
RefreshedTokenReturnedAlways == [][RefreshedTokenReturned]_vars

\* The caller still holds the StatusError it held before the step.
SameError ==
    /\ pc = "returned" /\ pc' = "returned"
    /\ ret.err.type = "StatusError" /\ ret'.err.type = "StatusError"
RateLimitStable == SameError => IsRateLimit(ret'.err) = IsRateLimit(ret.err)
TokenExpiredStable == SameError => IsTokenExpired(ret'.err) = IsTokenExpired(ret.err)

\* C29: IsTokenExpired and IsRateLimit depend on the error as it was
\* classified only: for a *StatusError their results stay the same when the
\* caller reads its ResponseBody to the end.
C29_ClassifiersStable == [][RateLimitStable /\ TokenExpiredStable]_vars
\* The part about IsRateLimit.
RateLimitStableAlways == [][RateLimitStable]_vars

\* The keys of the JSON object at b[i].
KeysAt(b, i) == {Members(b, i)[j].k : j \in 1..Len(Members(b, i))}
\* The index of the value of member key of the object b.
ValueAt(b, key) ==
    Members(b, 1)[CHOOSE j \in 1..Len(Members(b, 1)) : Members(b, 1)[j].k = key].at
\* The request body b has a destination with coordinates in it.
CarriesDestination(b) ==
    /\ "destination" \in KeysAt(b, 1)
    /\ b[ValueAt(b, "destination")].t = "{"
    /\ KeysAt(b, ValueAt(b, "destination")) \cap {"lat", "lng"} # {}
\* What the server reads from the body of a ride request.
Received(b) == JSONUnmarshal(b, "CreatedRide")
\* With an end location given, the ride request carries it as its destination.
DestinationAsGiven ==
    \A i \in Sent("RequestRide") :
        ~cli.end.nil =>
            /\ CarriesDestination(sent[i].request.body)
            /\ ~Received(sent[i].request.body).err
            /\ Received(sent[i].request.body).v.Destination = lyftLocation(cli.end)
\* Without one, it carries no destination coordinates.
NoDestinationUnlessGiven ==
    \A i \in Sent("RequestRide") :
        cli.end.nil => ~CarriesDestination(sent[i].request.body)

\* C30: `ride create` without an end location (empty input at the prompt, or
\* a route without End) sends a ride request with no destination coordinates;
\* a destination is sent only when an end location was given, and equals it.
C30_DestinationOptional == NoDestinationUnlessGiven /\ DestinationAsGiven

====
